---- MODULE Spec2Model ----
(***************************************************************************)
(* Review-rating prediction service: the inference engine                  *)
(* (src/src/inference.py), the embedding helpers (src/src/utils.py) and    *)
(* the HTTP boundary with its Kafka side channel (src/src/api.py).         *)
(*                                                                         *)
(* Encoding of numbers.  A numpy vector is a record [n, d]: the integer    *)
(* numerators n and one common denominator d > 0, in lowest terms, so that *)
(* the mean of integer vectors is exact.  A float is a pair <<p, q>> with  *)
(* q > 0 in lowest terms.  A cosine c is kept as sign(c) * c^2, which is   *)
(* rational for rational vectors and is a strictly increasing function of  *)
(* c, hence equal exactly when the cosines are equal; -1, 0 and 1 are      *)
(* their own images.  Floating-point rounding is not modelled.             *)
(*                                                                         *)
(* Encoding of text.  A string is a sequence of atoms: " " is a whitespace *)
(* character, every other atom is a run of non-whitespace characters.      *)
(* Adjacent non-whitespace atoms belong to the same token.                 *)
(***************************************************************************)
EXTENDS Integers, Sequences, FiniteSets, TLC

\* ------------------------------------------------------------ arithmetic

Abs(x) == IF x < 0 THEN -x ELSE x

RECURSIVE Gcd(_, _)
Gcd(a, b) == IF b = 0 THEN Abs(a) ELSE Gcd(b, a % b)

RECURSIVE GcdSeq(_)
GcdSeq(s) == IF s = <<>> THEN 0 ELSE Gcd(Head(s), GcdSeq(Tail(s)))

\* The float p/q in lowest terms, q > 0.
Frac(p, q) == LET g == Gcd(Abs(p), q) IN <<p \div g, q \div g>>

\* The numpy vector n/d in lowest terms, d > 0.
Vec(n, d) ==
    LET g == Gcd(GcdSeq([i \in 1..Len(n) |-> Abs(n[i])]), d)
    IN  [n |-> [i \in 1..Len(n) |-> n[i] \div g], d |-> d \div g]

RECURSIVE Dot(_, _)
Dot(a, b) == IF a = <<>> THEN 0 ELSE Head(a) * Head(b) + Dot(Tail(a), Tail(b))

RECURSIVE SumVecs(_, _)
SumVecs(vs, size) ==
    IF vs = <<>> THEN [i \in 1..size |-> 0]
    ELSE LET r == SumVecs(Tail(vs), size)
         IN  [i \in 1..size |-> Head(vs)[i] + r[i]]

\* ------------------------------------------------------------ text

Whitespace == " "

\* str.lower() on one atom.
LowerAtom(a) ==
    CASE a = "Good" -> "good"
      [] a = "BAD"  -> "bad"
      [] a = "Fine" -> "fine"
      [] OTHER      -> a

Lower(text) == [i \in 1..Len(text) |-> LowerAtom(text[i])]

\* str.split(): maximal runs of non-whitespace atoms, no empty tokens.
RECURSIVE SplitFrom(_, _, _)
SplitFrom(text, cur, acc) ==
    IF text = <<>>
    THEN IF cur = <<>> THEN acc ELSE Append(acc, cur)
    ELSE IF Head(text) = Whitespace
         THEN SplitFrom(Tail(text), <<>>, IF cur = <<>> THEN acc ELSE Append(acc, cur))
         ELSE SplitFrom(Tail(text), Append(cur, Head(text)), acc)

Split(text) == SplitFrom(text, <<>>, <<>>)

\* ------------------------------------------------------------ word vectors

\* A gensim KeyedVectors object: index_to_key[i] has the vector vectors[i].
\* A key is one token, a token is a sequence of atoms.
NoneSpace == [isNone |-> TRUE, index_to_key |-> <<>>, vectors |-> <<>>, vector_size |-> 0]

KeyedVectors(keys, vectors, size) ==
    [isNone |-> FALSE, index_to_key |-> keys, vectors |-> vectors, vector_size |-> size]

\* `word in model`
Contains(model, word) == \E i \in 1..Len(model.index_to_key) : model.index_to_key[i] = word

\* `model[word]` for a word that is in the model
GetVector(model, word) ==
    LET i == CHOOSE j \in 1..Len(model.index_to_key) : model.index_to_key[j] = word
    IN  Vec(model.vectors[i], 1)

\* `bool(model)`: None is falsy, a KeyedVectors object is falsy when it has no key
Truthy(model) == ~model.isNone /\ Len(model.index_to_key) > 0

SpaceFull ==
    KeyedVectors(<< <<"good">>, <<"bad">>, <<"fine">> >>, << <<1, 0>>, <<0, 1>>, <<2, 1>> >>, 2)

SpaceNoGood ==
    KeyedVectors(<< <<"bad">>, <<"fine">> >>, << <<0, 1>>, <<2, 1>> >>, 2)

SpaceNoBad ==
    KeyedVectors(<< <<"good">>, <<"fine">> >>, << <<1, 0>>, <<2, 1>> >>, 2)

Spaces == {SpaceFull, SpaceNoGood, SpaceNoBad}

\* ------------------------------------------------------------ utils.py

\* A comprehension without its `if word in model` filter.
LookupsUnfiltered(text, model) == Split(Lower(text))

\* The words the comprehension of get_text_embedding looks up, in order:
\* [... for word in words if word in model].
Lookups(text, model) == SelectSeq(Split(Lower(text)), LAMBDA w : Contains(model, w))

\* np.ones(size)
ones(size) == Vec([i \in 1..size |-> 1], 1)

\* np.zeros(size)
zeros(size) == Vec([i \in 1..size |-> 0], 1)

\* A mean that divides by the number of tokens, found or not.
get_text_embedding_all_tokens(text, model) ==
    LET found   == Lookups(text, model)
        vectors == [i \in 1..Len(found) |-> GetVector(model, found[i]).n]
    IN  IF vectors = <<>>
        THEN zeros(model.vector_size)
        ELSE Vec(SumVecs(vectors, model.vector_size), Len(Split(Lower(text))))

\* get_text_embedding(text, model): the mean of the vectors of the
\* in-vocabulary tokens, or zeros(vector_size) when there is none.
get_text_embedding(text, model) ==
    LET found   == Lookups(text, model)
        vectors == [i \in 1..Len(found) |-> GetVector(model, found[i]).n]
    IN  IF vectors = <<>>
        THEN zeros(model.vector_size)
        ELSE Vec(SumVecs(vectors, model.vector_size), Len(vectors))

\* get_text_embedding as a call: model[word] raises KeyError for a word that
\* is not a key, and the function raises what it catches.
get_text_embedding_call(text, model) ==
    LET found == Lookups(text, model)
    IN  IF \E i \in 1..Len(found) : ~Contains(model, found[i])
        THEN [exc |-> "KeyError", val |-> zeros(0)]
        ELSE [exc |-> "none", val |-> get_text_embedding(text, model)]

\* A similarity over the common prefix of the two vectors, without the
\* check of their lengths.
cosine_sim_unchecked(vec1, vec2) ==
    LET m   == IF Len(vec1.n) < Len(vec2.n) THEN Len(vec1.n) ELSE Len(vec2.n)
        a   == SubSeq(vec1.n, 1, m)
        b   == SubSeq(vec2.n, 1, m)
        dot == Dot(a, b)
        n1  == Dot(a, a)
        n2  == Dot(b, b)
    IN  IF n1 = 0 \/ n2 = 0
        THEN [exc |-> "none", val |-> <<0, 1>>]
        ELSE [exc |-> "none",
              val |-> Frac((IF dot < 0 THEN -1 ELSE 1) * dot * dot, n1 * n2)]

\* A similarity that is the dot product, without the normalisation.
cosine_sim_unnormalised(vec1, vec2) ==
    IF Len(vec1.n) # Len(vec2.n)
    THEN [exc |-> "ValueError", val |-> <<0, 1>>]
    ELSE LET dot == Dot(vec1.n, vec2.n)
         IN  [exc |-> "none", val |-> Frac((IF dot < 0 THEN -1 ELSE 1) * dot * dot, 1)]

\* cosine_sim(vec1, vec2): sklearn's cosine_similarity of two row vectors.
\* It raises ValueError when the lengths differ; a zero vector is left as it
\* is by the normalisation, so its similarity to anything is 0.
cosine_sim(vec1, vec2) ==
    IF Len(vec1.n) # Len(vec2.n)
    THEN [exc |-> "ValueError", val |-> <<0, 1>>]
    ELSE LET dot == Dot(vec1.n, vec2.n)
             n1  == Dot(vec1.n, vec1.n)
             n2  == Dot(vec2.n, vec2.n)
         IN  IF n1 = 0 \/ n2 = 0
             THEN [exc |-> "none", val |-> <<0, 1>>]
             ELSE [exc |-> "none",
                   val |-> Frac((IF dot < 0 THEN -1 ELSE 1) * dot * dot, n1 * n2)]

\* ------------------------------------------------------------ bounds and inputs

\* Number of prediction calls (POST /predict requests or direct predict calls).
NReq == 2

Calls == 1..NReq

\* Attempts of ReviewAPI._setup_kafka.
max_retries == 10

\* Request bodies accepted by InputData / arguments of predict.
Inputs ==
    { [summary |-> <<"Good">>, text |-> <<"fine", " ", "good!">>,
       HelpfulnessNumerator |-> 1, HelpfulnessDenominator |-> 1],
      [summary |-> <<>>, text |-> <<"xyz", " ", " ", "good", "bad">>,
       HelpfulnessNumerator |-> 0, HelpfulnessDenominator |-> 2],
      [summary |-> <<"BAD">>, text |-> <<"Good", " ", "good", " ", "bad">>,
       HelpfulnessNumerator |-> 3, HelpfulnessDenominator |-> 2] }

NoInput ==
    [summary |-> <<>>, text |-> <<>>, HelpfulnessNumerator |-> 0, HelpfulnessDenominator |-> 0]

\* ------------------------------------------------------------ the regression model

FeatureNames ==
    <<"cos_sim_good_text", "cos_sim_bad_text", "cos_sim_good_summary",
      "cos_sim_bad_summary", "HelpfulnessNumerator", "HelpfulnessDenominator">>

\* What can be at the model path.  "m5", "m6" and "m7" are CatBoost models
\* trained on 5, 6 and 7 features.
ModelFiles == {"missing", "corrupt", "m5", "m6", "m7"}

NoneModel == [isNone |-> TRUE, id |-> "none", feature_names_ |-> <<>>]

\* CatBoostRegressor().load_model(path) on a readable model file.
CatBoostModel(file) ==
    [isNone |-> FALSE, id |-> file,
     feature_names_ |->
        CASE file = "m5" -> SubSeq(FeatureNames, 1, 5)
          [] file = "m6" -> FeatureNames
          [] OTHER       -> FeatureNames \o <<"Time">>]

NoPrediction == [model |-> "none", x |-> <<>>]

\* model.predict(input_data)[0].  CatBoost is opaque: the prediction is kept
\* as the application of the model to its input, so two predictions are equal
\* only if the regressor was given the same row.
ModelPredict(model, input_data) == [model |-> model.id, x |-> input_data]

\* ------------------------------------------------------------ inference.py

\* A load_model that logs the error and does not raise it again.
LoadModelSwallow(file) ==
    IF file \in {"missing", "corrupt"}
    THEN [exc |-> "none", model |-> NoneModel]
    ELSE [exc |-> "none", model |-> CatBoostModel(file)]

\* InferenceEngine.load_model: [exc, model].
load_model(file) ==
    IF file = "missing" THEN [exc |-> "FileNotFoundError", model |-> NoneModel]
    ELSE IF file = "corrupt" THEN [exc |-> "CatBoostError", model |-> NoneModel]
    ELSE [exc |-> "none", model |-> CatBoostModel(file)]

\* InferenceEngine.load_word_vectors: api.load returns a space, or raises
\* (gl = NoneSpace stands for the download failing).
load_word_vectors(gl) ==
    IF gl.isNone THEN [exc |-> "LoadError", word_vectors |-> NoneSpace]
    ELSE [exc |-> "none", word_vectors |-> gl]

NoEngine == [state |-> "absent", exc |-> "none", model |-> NoneModel, word_vectors |-> NoneSpace]

\* InferenceEngine.__init__(model_path, word_vectors), with `file` at the
\* model path and `gl` what the download yields.
InferenceEngine(model_path, word_vectors, file, gl) ==
    LET m  == IF model_path # "none" THEN load_model(file)
              ELSE [exc |-> "none", model |-> NoneModel]
        wv == IF ~Truthy(word_vectors) THEN load_word_vectors(gl)
              ELSE [exc |-> "none", word_vectors |-> word_vectors]
    IN  IF m.exc # "none"
        THEN [state |-> "failed", exc |-> m.exc, model |-> NoneModel, word_vectors |-> word_vectors]
        ELSE IF wv.exc # "none"
        THEN [state |-> "failed", exc |-> wv.exc, model |-> m.model, word_vectors |-> word_vectors]
        ELSE [state |-> "ready", exc |-> "none", model |-> m.model, word_vectors |-> wv.word_vectors]

\* int -> float64 inside np.array([...]) of floats
ToFloat(k) == Frac(k, 1)

\* A row with the summary similarities before the text similarities.
InputDataSwapped(cgt, cbt, cgs, cbs, num, den) ==
    <<cgs, cbs, cgt, cbt, ToFloat(num), ToFloat(den)>>

\* np.array([...]).reshape(1, -1): the row handed to the model.
InputData(cgt, cbt, cgs, cbs, num, den) ==
    <<cgt, cbt, cgs, cbs, ToFloat(num), ToFloat(den)>>

\* InferenceEngine.predict up to the row: [exc, input_data].
PredictFeatures(eng, inp) ==
    IF ~Contains(eng.word_vectors, <<"good">>) \/ ~Contains(eng.word_vectors, <<"bad">>)
    THEN [exc |-> "KeyError", input_data |-> <<>>]
    ELSE LET good_emb == GetVector(eng.word_vectors, <<"good">>)
             bad_emb  == GetVector(eng.word_vectors, <<"bad">>)
             cgt == cosine_sim(get_text_embedding(inp.text, eng.word_vectors), good_emb)
             cbt == cosine_sim(get_text_embedding(inp.text, eng.word_vectors), bad_emb)
             cgs == cosine_sim(get_text_embedding(inp.summary, eng.word_vectors), good_emb)
             cbs == cosine_sim(get_text_embedding(inp.summary, eng.word_vectors), bad_emb)
         IN  IF \E c \in {cgt, cbt, cgs, cbs} : c.exc # "none"
             THEN [exc |-> "ValueError", input_data |-> <<>>]
             ELSE [exc |-> "none",
                   input_data |-> InputData(cgt.val, cbt.val, cgs.val, cbs.val,
                                            inp.HelpfulnessNumerator,
                                            inp.HelpfulnessDenominator)]

\* InferenceEngine.predict from the feature-count check on: [exc, prediction].
PredictScore(eng, input_data) ==
    IF eng.model.isNone
    THEN [exc |-> "AttributeError", prediction |-> NoPrediction]
    ELSE IF Len(input_data) # Len(eng.model.feature_names_)
    THEN [exc |-> "ValueError", prediction |-> NoPrediction]
    ELSE [exc |-> "none", prediction |-> ModelPredict(eng.model, input_data)]

\* ------------------------------------------------------------ state

VARIABLES
    caller,      \* "none", "api" (api.py) or "lib" (inference.py, direct use of the engine)
    modelFile,   \* what the process found at the model path ("unread" before it looks)
    glove,       \* what api.load("glove-wiki-gigaword-50") returned (NoneSpace before / on failure)
    api,         \* the ReviewAPI object and the position of the api.py process
    engine,      \* the InferenceEngine object
    calls,       \* per call: position, arguments, outcome, HTTP response
    input_data,  \* per call frame: the local variable input_data of predict
    topic,       \* the messages sent to the Kafka topic 'predictions', in order
    pure,        \* one call of a function of utils.py or of a credential lookup
    consumer,    \* the DatabaseConsumer object, its process and the predictions table
    db           \* one call of a function of database.py

vars == <<caller, modelFile, glove, api, engine, calls, input_data, topic, pure, consumer, db>>

NoApi ==
    [pc |-> "none", model_path |-> "none", model |-> NoneModel, word_vectors |-> NoneSpace,
     vault_connected |-> FALSE, kafka_producer |-> FALSE, kafka_connected |-> FALSE,
     attempt |-> 0, hasEngine |-> FALSE, exc |-> "none"]

NoCall ==
    [pc |-> "idle", inp |-> NoInput, exc |-> "none", prediction |-> NoPrediction,
     kafka |-> "none", status |-> 0, body |-> NoPrediction, detail |-> "none"]

\* No call of a function under test.
NoPure == [op |-> "none"]

\* No consumer process.
NoConsumer == [pc |-> "none"]

\* No call of database.py.
NoDb == [pc |-> "none"]

\* Nothing of api.py or inference.py has run.
SystemIdle ==
    /\ caller = "none"
    /\ modelFile = "unread"
    /\ glove = NoneSpace
    /\ api = NoApi
    /\ engine = NoEngine
    /\ calls = [r \in Calls |-> NoCall]
    /\ input_data = [r \in Calls |-> <<>>]
    /\ topic = <<>>

Init ==
    /\ SystemIdle
    /\ pure = NoPure
    /\ consumer = NoConsumer
    /\ db = NoDb

\* ------------------------------------------------------------ api.py: construction

\* ReviewAPI.__init__ up to and including _setup_vault.  The outcome of
\* database.get_vault_client() and is_authenticated() is the environment's.
ApiSetupVault ==
    /\ caller = "none"
    /\ \E model_path \in {"none", "path"}, word_vectors \in {NoneSpace, SpaceFull},
          vault_ok \in BOOLEAN :
          api' = [NoApi EXCEPT !.pc = "kafka", !.model_path = model_path,
                               !.word_vectors = word_vectors,
                               !.vault_connected = vault_ok]
    /\ caller' = "api"
    /\ UNCHANGED <<modelFile, glove, engine, calls, input_data, topic, pure, consumer, db>>

\* A _setup_kafka that raises after the last failed attempt, as the
\* consumer's does.
ApiSetupKafkaRaises ==
    /\ api.pc = "kafka"
    /\ api.attempt < max_retries
    /\ \E connects \in BOOLEAN :
          api' = IF connects
                 THEN [api EXCEPT !.kafka_producer = TRUE, !.kafka_connected = TRUE,
                                  !.pc = "load"]
                 ELSE IF api.attempt + 1 < max_retries
                 THEN [api EXCEPT !.attempt = @ + 1]
                 ELSE [api EXCEPT !.attempt = @ + 1, !.pc = "failed", !.exc = "KafkaError"]
    /\ UNCHANGED <<caller, modelFile, glove, engine, calls, input_data, topic, pure, consumer, db>>

\* One iteration of the loop of ReviewAPI._setup_kafka; after the last
\* failed attempt the method sets kafka_connected = False and returns.
ApiSetupKafka ==
    /\ api.pc = "kafka"
    /\ api.attempt < max_retries
    /\ \E connects \in BOOLEAN :
          api' = IF connects
                 THEN [api EXCEPT !.kafka_producer = TRUE, !.kafka_connected = TRUE,
                                  !.pc = "load"]
                 ELSE IF api.attempt + 1 < max_retries
                 THEN [api EXCEPT !.attempt = @ + 1]
                 ELSE [api EXCEPT !.attempt = @ + 1, !.kafka_connected = FALSE,
                                  !.pc = "load"]
    /\ UNCHANGED <<caller, modelFile, glove, engine, calls, input_data, topic, pure, consumer, db>>

\* A ReviewAPI.load_model that logs the error and does not raise it again.
ApiLoadModelSwallow(file, gl) ==
    LET e == InferenceEngine("path", NoneSpace, file, gl)
    IN  IF file = "missing" \/ e.state = "failed"
        THEN [exc |-> "none", engine |-> NoEngine]
        ELSE [exc |-> "none", engine |-> e]

\* ReviewAPI.load_model(model_path): [exc, engine].
ApiLoadModel(file, gl) ==
    IF file = "missing"
    THEN [exc |-> "FileNotFoundError", engine |-> NoEngine]
    ELSE LET e == InferenceEngine("path", NoneSpace, file, gl)
         IN  IF e.state = "failed"
             THEN [exc |-> e.exc, engine |-> NoEngine]
             ELSE [exc |-> "none", engine |-> e]

\* The rest of ReviewAPI.__init__: load_model when a path was given, then
\* _setup_routes.  An exception leaves __init__ and ends the process.
ApiLoad ==
    /\ api.pc = "load"
    /\ IF api.model_path = "none"
       THEN /\ api' = [api EXCEPT !.pc = "constructed"]
            /\ UNCHANGED <<modelFile, glove, engine>>
       ELSE \E file \in ModelFiles, gl \in Spaces \cup {NoneSpace} :
              LET r == ApiLoadModel(file, gl)
                  downloaded == file # "missing" /\ load_model(file).exc = "none"
              IN  /\ downloaded \/ gl = NoneSpace
                  /\ modelFile' = file
                  /\ glove' = IF downloaded THEN gl ELSE glove
                  /\ engine' = r.engine
                  /\ api' = IF r.exc # "none"
                            THEN [api EXCEPT !.pc = "failed", !.exc = r.exc]
                            ELSE IF r.engine.state = "ready"
                            THEN [api EXCEPT !.pc = "constructed", !.hasEngine = TRUE,
                                             !.word_vectors = r.engine.word_vectors,
                                             !.model = r.engine.model]
                            ELSE [api EXCEPT !.pc = "constructed"]
    /\ UNCHANGED <<caller, calls, input_data, topic, pure, consumer, db>>

\* __main__ of api.py: api.run() starts the server.
ApiRun ==
    /\ api.pc = "constructed"
    /\ api' = [api EXCEPT !.pc = "serving"]
    /\ UNCHANGED <<caller, modelFile, glove, engine, calls, input_data, topic, pure, consumer, db>>

\* ------------------------------------------------------------ direct use of the engine

\* InferenceEngine(model_path, word_vectors) built by a caller other than
\* ReviewAPI (the command line of inference.py, a test, a library user).
LibConstruct ==
    /\ caller = "none"
    /\ \E model_path \in {"none", "path"}, word_vectors \in Spaces \cup {NoneSpace},
          file \in ModelFiles, gl \in Spaces \cup {NoneSpace} :
          LET reads    == model_path # "none"
              loads    == ~Truthy(word_vectors) /\ (~reads \/ load_model(file).exc = "none")
          IN  /\ reads \/ file = "missing"
              /\ loads \/ gl = NoneSpace
              /\ modelFile' = IF reads THEN file ELSE modelFile
              /\ glove' = gl
              /\ engine' = InferenceEngine(model_path, word_vectors, file, gl)
    /\ caller' = "lib"
    /\ UNCHANGED <<api, calls, input_data, topic, pure, consumer, db>>

\* ------------------------------------------------------------ prediction calls

\* A predict that keeps input_data in one place shared by all calls (an
\* attribute of the engine) instead of in a local variable.
FrameShared(r) == 1

\* The frame holding the local variables of one call of predict.
Frame(r) == r

\* POST /predict arrives with a validated body and the handler calls
\* self.engine.predict; without an engine attribute that raises.
HandlerCall(r) ==
    /\ api.pc = "serving"
    /\ calls[r].pc = "idle"
    /\ \E inp \in Inputs :
          calls' = [calls EXCEPT ![r] =
                      IF api.hasEngine
                      THEN [@ EXCEPT !.pc = "predict", !.inp = inp]
                      ELSE [@ EXCEPT !.pc = "raised", !.inp = inp, !.exc = "AttributeError"]]
    /\ UNCHANGED <<caller, modelFile, glove, api, engine, input_data, topic, pure, consumer, db>>

\* engine.predict(summary, text, numerator, denominator) called directly.
LibCall(r) ==
    /\ caller = "lib"
    /\ engine.state = "ready"
    /\ calls[r].pc = "idle"
    /\ \E inp \in Inputs :
          calls' = [calls EXCEPT ![r] = [@ EXCEPT !.pc = "predict", !.inp = inp]]
    /\ UNCHANGED <<caller, modelFile, glove, api, engine, input_data, topic, pure, consumer, db>>

\* A get_text_embedding that sums into the stored vector of the first
\* in-vocabulary token instead of into a fresh array.
AccumulateInPlace(model, text) ==
    LET words == Split(Lower(text))
        found == SelectSeq(words, LAMBDA w : Contains(model, w))
    IN  IF found = <<>> THEN model
        ELSE LET i == CHOOSE j \in 1..Len(model.index_to_key) : model.index_to_key[j] = found[1]
                 vectors == [k \in 1..Len(found) |-> GetVector(model, found[k]).n]
             IN  [model EXCEPT !.vectors[i] = SumVecs(vectors, model.vector_size)]

\* predict, lines 59-78: the anchors, the four similarities, the row.
FeaturesStep(r, eng) ==
    /\ calls[r].pc = "predict"
    /\ LET res == PredictFeatures(engine, calls[r].inp)
       IN  IF res.exc # "none"
           THEN /\ calls' = [calls EXCEPT ![r] = [@ EXCEPT !.pc = "raised", !.exc = res.exc]]
                /\ UNCHANGED input_data
           ELSE /\ calls' = [calls EXCEPT ![r] = [@ EXCEPT !.pc = "features"]]
                /\ input_data' = [input_data EXCEPT ![Frame(r)] = res.input_data]
    /\ engine' = eng
    /\ UNCHANGED <<caller, modelFile, glove, api, topic, pure, consumer, db>>

\* The same step with the in-place get_text_embedding.
EngineFeaturesInPlace(r) ==
    FeaturesStep(r, [engine EXCEPT !.word_vectors = AccumulateInPlace(@, calls[r].inp.text)])

\* The step as the code has it: nothing of the engine is written.
EngineFeatures(r) == FeaturesStep(r, engine)

\* predict, lines 80-95: the feature-count check and the model.
EngineScore(r) ==
    /\ calls[r].pc = "features"
    /\ LET res == PredictScore(engine, input_data[Frame(r)])
       IN  calls' = [calls EXCEPT ![r] =
                       IF res.exc # "none"
                       THEN [@ EXCEPT !.pc = "raised", !.exc = res.exc]
                       ELSE [@ EXCEPT !.pc = "returned", !.prediction = res.prediction]]
    /\ UNCHANGED <<caller, modelFile, glove, api, engine, input_data, topic, pure, consumer, db>>

\* The record sent to the topic (its timestamp is not modelled).
Message(inp, prediction) ==
    [summary |-> inp.summary, text |-> inp.text,
     helpfulness_numerator |-> inp.HelpfulnessNumerator,
     helpfulness_denominator |-> inp.HelpfulnessDenominator,
     prediction |-> prediction]

\* A handler without the inner try/except: a raising send reaches the outer
\* except clause.
HandlerResponseStrict(prediction, kafka) ==
    IF kafka = "failed"
    THEN [status |-> 500, body |-> NoPrediction, detail |-> "KafkaError"]
    ELSE [status |-> 200, body |-> prediction, detail |-> "none"]

\* The response of the handler once the engine returned: the Kafka step is
\* "sent", "failed" (the send raised) or "skipped" (not connected).
HandlerResponse(prediction, kafka) ==
    [status |-> 200, body |-> prediction, detail |-> "none"]

\* A handler that sends without looking at kafka_connected.
HandlerReturnUnguarded(r) ==
    /\ caller = "api"
    /\ calls[r].pc = "returned"
    /\ LET resp == HandlerResponse(calls[r].prediction, "sent")
       IN  /\ topic' = Append(topic, Message(calls[r].inp, calls[r].prediction))
           /\ calls' = [calls EXCEPT ![r] =
                          [@ EXCEPT !.pc = "done", !.kafka = "sent", !.status = resp.status,
                                    !.body = resp.body, !.detail = resp.detail]]
    /\ UNCHANGED <<caller, modelFile, glove, api, engine, input_data, pure, consumer, db>>

\* The handler after engine.predict returned: publish, then answer.
HandlerReturn(r) ==
    /\ caller = "api"
    /\ calls[r].pc = "returned"
    /\ \E raises \in BOOLEAN :
          LET kafka == IF ~api.kafka_connected THEN "skipped"
                       ELSE IF raises THEN "failed" ELSE "sent"
              resp  == HandlerResponse(calls[r].prediction, kafka)
          IN  /\ api.kafka_connected \/ ~raises
              /\ topic' = IF kafka = "sent"
                          THEN Append(topic, Message(calls[r].inp, calls[r].prediction))
                          ELSE topic
              /\ calls' = [calls EXCEPT ![r] =
                             [@ EXCEPT !.pc = "done", !.kafka = kafka, !.status = resp.status,
                                       !.body = resp.body, !.detail = resp.detail]]
    /\ UNCHANGED <<caller, modelFile, glove, api, engine, input_data, pure, consumer, db>>

\* An except clause that blames the request.
HandlerErrorBadRequest(exc) == [status |-> 400, detail |-> exc]

\* except Exception as e: raise HTTPException(status_code=500, detail=str(e))
HandlerError(exc) == [status |-> 500, detail |-> exc]

\* The handler after engine.predict (or the access to self.engine) raised.
HandlerExcept(r) ==
    /\ caller = "api"
    /\ calls[r].pc = "raised"
    /\ LET resp == HandlerError(calls[r].exc)
       IN  calls' = [calls EXCEPT ![r] =
                       [@ EXCEPT !.pc = "done", !.status = resp.status, !.detail = resp.detail]]
    /\ UNCHANGED <<caller, modelFile, glove, api, engine, input_data, topic, pure, consumer, db>>

\* ------------------------------------------------------------ specification

Next ==
    \/ ApiSetupVault
    \/ ApiSetupKafka
    \/ ApiLoad
    \/ ApiRun
    \/ LibConstruct
    \/ \E r \in Calls : HandlerCall(r)
    \/ \E r \in Calls : LibCall(r)
    \/ \E r \in Calls : EngineFeatures(r)
    \/ \E r \in Calls : EngineScore(r)
    \/ \E r \in Calls : HandlerReturn(r)
    \/ \E r \in Calls : HandlerExcept(r)

Spec == Init /\ [][Next]_vars

\* ------------------------------------------------------------ properties

Good == <<"good">>
Bad  == <<"bad">>

HasAnchors(wv) == Contains(wv, Good) /\ Contains(wv, Bad)

\* The call has entered InferenceEngine.predict.
InEngine(r) ==
    /\ calls[r].pc # "idle"
    /\ caller = "lib" \/ api.hasEngine

\* InferenceEngine.predict has returned or raised for the call.
Finished(r) == InEngine(r) /\ calls[r].pc \in {"returned", "raised", "done"}

Outcome(r) == [exc |-> calls[r].exc, prediction |-> calls[r].prediction]

\* The similarity of a text to an anchor word, as a float.
Sim(text, wv, anchor) == cosine_sim(get_text_embedding(text, wv), GetVector(wv, anchor)).val

\* The row has the six features of the input, each at its position.
RowInOrder(row, inp, wv) ==
    /\ Len(row) = 6
    /\ row[1] = Sim(inp.text, wv, Good)
    /\ row[2] = Sim(inp.text, wv, Bad)
    /\ row[3] = Sim(inp.summary, wv, Good)
    /\ row[4] = Sim(inp.summary, wv, Bad)
    /\ row[5] = <<inp.HelpfulnessNumerator, 1>>
    /\ row[6] = <<inp.HelpfulnessDenominator, 1>>

\* C1: the row handed to the model has exactly 6 positions, in the order
\* [cos(text, good), cos(text, bad), cos(summary, good), cos(summary, bad),
\* numerator, denominator].
C1_FeatureOrder ==
    \A r \in Calls :
        /\ calls[r].pc = "features" => RowInOrder(input_data[r], calls[r].inp, engine.word_vectors)
        /\ calls[r].prediction # NoPrediction =>
              RowInOrder(calls[r].prediction.x, calls[r].inp, engine.word_vectors)

\* A request whose six features are pairwise different was scored on the row
\* [4/5, 1/5, 0, 1, 3, 2] (cosines as signed squares).
C1_Witness ==
    \E r \in Calls :
        /\ calls[r].pc = "done"
        /\ calls[r].status = 200
        /\ calls[r].inp.summary = <<"BAD">>
        /\ calls[r].body.x = << <<4, 5>>, <<1, 5>>, <<0, 1>>, <<1, 1>>, <<3, 1>>, <<2, 1>> >>

\* C2: a model whose expected feature count is not 6 is rejected when it is
\* loaded, so no constructed engine holds such a model and no predict call
\* is the first to find the mismatch.
C2_ArityCheckedAtLoad ==
    /\ engine.state = "ready" /\ ~engine.model.isNone => Len(engine.model.feature_names_) = 6
    /\ \A r \in Calls : calls[r].exc # "ValueError"

\* C3: no POST /predict request reaches the engine, or is answered with a
\* prediction, unless the model and the word vectors are loaded.
C3_InitBarrier ==
    caller = "api" =>
        \A r \in Calls :
            (calls[r].pc \in {"predict", "features", "returned"}
                \/ calls[r].prediction # NoPrediction \/ calls[r].status = 200)
            => /\ engine.state = "ready"
               /\ ~engine.model.isNone
               /\ ~engine.word_vectors.isNone
               /\ api.pc = "serving"

\* A ReviewAPI built without a model path serves, and answers a request
\* with an error before any feature is built.
C3_Witness ==
    /\ api.pc = "serving"
    /\ api.model_path = "none"
    /\ \E r \in Calls : calls[r].pc = "done" /\ calls[r].status = 500
                        /\ calls[r].detail = "AttributeError" /\ input_data[r] = <<>>

\* C4: a word-vector space without "good" or "bad" makes the construction of
\* the engine fail, so no prediction call is the first to find it missing.
C4_AnchorsCheckedAtSetup ==
    /\ engine.state = "ready" => HasAnchors(engine.word_vectors)
    /\ \A r \in Calls : calls[r].exc # "KeyError"

\* C5: when the model file is missing or unreadable, ReviewAPI's construction
\* raises (FileNotFoundError for a missing file), the process never runs the
\* server and no request is handled.
C5_NoServingAfterFailedLoad ==
    (caller = "api" /\ modelFile \in {"missing", "corrupt"}) =>
        /\ api.pc = "failed"
        /\ api.exc = (IF modelFile = "missing" THEN "FileNotFoundError" ELSE "CatBoostError")
        /\ ~api.hasEngine
        /\ \A r \in Calls : calls[r] = NoCall

C5_Witness ==
    /\ caller = "api"
    /\ modelFile = "missing"
    /\ api.pc = "failed"
    /\ api.exc = "FileNotFoundError"

\* predict run alone, start to end, on the engine.
Sequential(eng, inp) ==
    LET f == PredictFeatures(eng, inp)
    IN  IF f.exc # "none" THEN [exc |-> f.exc, prediction |-> NoPrediction]
        ELSE PredictScore(eng, f.input_data)

\* C6: under every interleaving of the calls, each call's outcome is the
\* outcome of the same call run alone.
C6_ConcurrentAsSequential ==
    \A r \in Calls : Finished(r) => Outcome(r) = Sequential(engine, calls[r].inp)

\* Two calls with different inputs are inside predict at the same time, each
\* with its row built and not yet scored.
C6_Witness ==
    \E r1, r2 \in Calls :
        /\ r1 # r2
        /\ calls[r1].pc = "features" /\ calls[r2].pc = "features"
        /\ calls[r1].inp # calls[r2].inp
        /\ input_data[r1] # input_data[r2]

\* C7: a prediction call, successful or failing, leaves the engine's model
\* and word vectors as they were after construction, and calls with equal
\* inputs have equal outcomes.
C7_EngineReadOnly ==
    /\ [][engine.state = "ready" => engine' = engine]_vars
    /\ [](\A r1, r2 \in Calls :
            (Finished(r1) /\ Finished(r2) /\ calls[r1].inp = calls[r2].inp)
            => Outcome(r1) = Outcome(r2))

\* Two calls with the same input have both returned a prediction.
C7_Witness ==
    \E r1, r2 \in Calls :
        /\ r1 # r2
        /\ Finished(r1) /\ Finished(r2)
        /\ calls[r1].inp = calls[r2].inp
        /\ calls[r1].prediction # NoPrediction
        /\ calls[r2].prediction = calls[r1].prediction

\* C8: when the Kafka send raises or Kafka is not connected, the request is
\* still answered 200 with the prediction the engine computed.
C8_KafkaFailureSwallowed ==
    \A r \in Calls :
        (calls[r].pc = "done" /\ calls[r].kafka \in {"failed", "skipped"}) =>
            /\ calls[r].status = 200
            /\ calls[r].body = calls[r].prediction
            /\ calls[r].body = Sequential(engine, calls[r].inp).prediction
            /\ calls[r].body # NoPrediction

C8_Witness ==
    \E r \in Calls :
        /\ calls[r].pc = "done"
        /\ calls[r].kafka = "failed"
        /\ calls[r].status = 200
        /\ api.kafka_connected

\* C9: an exception raised while handling POST /predict becomes a 500
\* response of that request alone; the API and the engine are unchanged, the
\* other requests are untouched and the API goes on accepting requests.
C9_CoreErrorIs500 ==
    /\ [][\A r \in Calls :
            (caller = "api" /\ calls[r].pc = "raised" /\ calls'[r].pc = "done") =>
                /\ calls'[r].status = 500
                /\ calls'[r].detail = calls[r].exc
                /\ api' = api /\ engine' = engine /\ topic' = topic
                /\ \A q \in Calls \ {r} : calls'[q] = calls[q]]_vars
    /\ [](\A r, q \in Calls :
            (caller = "api" /\ calls[r].pc = "done" /\ calls[r].exc # "none") =>
                /\ calls[r].status = 500
                /\ api.pc = "serving"
                /\ calls[q].pc = "idle" => ENABLED HandlerCall(q))

\* A request was answered 500 for a KeyError of the core and another request
\* is being handled.
C9_Witness ==
    \E r, q \in Calls :
        /\ calls[r].pc = "done" /\ calls[r].status = 500 /\ calls[r].detail = "KeyError"
        /\ calls[q].pc = "predict"
        /\ api.pc = "serving"

\* C10: on an initialised engine (model and word vectors loaded) predict
\* fails only when the word-vector space lacks an anchor word.
C10_FailsOnlyWithoutAnchors ==
    \A r \in Calls :
        (Finished(r) /\ engine.state = "ready" /\ ~engine.model.isNone
            /\ ~engine.word_vectors.isNone /\ calls[r].exc # "none")
        => ~HasAnchors(engine.word_vectors)

\* ------------------------------------------------------------ utils.py, one call at a time

\* Longest text, in atoms.
MaxTextLen == 5

\* Longest vector handed to cosine_sim, and its largest entry.
MaxDim == 2

MaxAbs == 2

Atoms == {Whitespace, "good", "Good", "bad", "fine", "xyz"}

Texts == UNION {[1..n -> Atoms] : n \in 0..MaxTextLen}

IntVecs == UNION {[1..n -> (-MaxAbs)..MaxAbs] : n \in 1..MaxDim}

\* get_text_embedding(text, space) is called.
Embed ==
    /\ pure = NoPure
    /\ \E text \in Texts, space \in Spaces :
        /\ pure' = [op |-> "embed", text |-> text, space |-> space,
                    emb |-> get_text_embedding_call(text, space)]
        /\ UNCHANGED <<caller, modelFile, glove, api, engine, calls, input_data, topic,
                       consumer, db>>

\* cosine_sim(vec1, vec2) is called.
Cosine ==
    /\ pure = NoPure
    /\ \E a \in IntVecs, b \in IntVecs :
        /\ pure' = [op |-> "cosine", vec1 |-> a, vec2 |-> b,
                    sim |-> cosine_sim(Vec(a, 1), Vec(b, 1))]
        /\ UNCHANGED <<caller, modelFile, glove, api, engine, calls, input_data, topic,
                       consumer, db>>

\* The caller has the result and may call again.
Returned ==
    /\ pure # NoPure
    /\ pure' = NoPure
    /\ UNCHANGED <<caller, modelFile, glove, api, engine, calls, input_data, topic,
                   consumer, db>>

NextUtils == Embed \/ Cosine \/ Returned

SpecUtils == Init /\ [][NextUtils]_vars

\* The number of tokens that are keys of the space, each occurrence counted.
RECURSIVE TokenCount(_, _)
TokenCount(toks, space) ==
    IF toks = <<>> THEN 0
    ELSE (IF Contains(space, Head(toks)) THEN 1 ELSE 0) + TokenCount(Tail(toks), space)

\* The sum of component j of the vectors of those tokens.
RECURSIVE TokenSum(_, _, _)
TokenSum(toks, space, j) ==
    IF toks = <<>> THEN 0
    ELSE (IF Contains(space, Head(toks)) THEN GetVector(space, Head(toks)).n[j] ELSE 0)
         + TokenSum(Tail(toks), space, j)

\* The same text in another letter case.
Recase(text) ==
    [i \in 1..Len(text) |->
        CASE text[i] = "good" -> "Good"
          [] text[i] = "Good" -> "good"
          [] text[i] = "bad"  -> "BAD"
          [] text[i] = "fine" -> "Fine"
          [] OTHER            -> text[i]]

\* C11: for every text, get_text_embedding returns without raising a vector
\* of length vector_size.
C11_EmbeddingTotal ==
    pure.op = "embed" =>
        /\ pure.emb.exc = "none"
        /\ Len(pure.emb.val.n) = pure.space.vector_size

\* A text with whitespace at both ends and a token that glues a word to
\* other characters was embedded.
C11_Witness ==
    /\ pure.op = "embed"
    /\ pure.text = <<Whitespace, "good", "xyz", Whitespace>>
    /\ pure.emb.exc = "none"
    /\ Len(pure.emb.val.n) = 2

\* C12: the embedding of the empty string, and of a text none of whose
\* tokens is in the vocabulary, is the zero vector of length vector_size.
C12_ZeroEmbedding ==
    (pure.op = "embed" /\ TokenCount(Split(Lower(pure.text)), pure.space) = 0) =>
        /\ pure.emb.exc = "none"
        /\ pure.emb.val.d = 1
        /\ pure.emb.val.n = [i \in 1..pure.space.vector_size |-> 0]

\* A text with tokens, none of them in the vocabulary, was embedded.
C12_Witness ==
    /\ pure.op = "embed"
    /\ Len(Split(Lower(pure.text))) = 2
    /\ TokenCount(Split(Lower(pure.text)), pure.space) = 0
    /\ pure.emb.val = [n |-> <<0, 0>>, d |-> 1]

\* C13: with a token in the vocabulary, the embedding is the mean of the
\* vectors of the in-vocabulary tokens, each occurrence counted, the other
\* tokens counting for nothing, whatever the letter case of the text.
C13_MeanOfFound ==
    LET toks == Split(Lower(pure.text))
        k    == TokenCount(toks, pure.space)
    IN  (pure.op = "embed" /\ k > 0) =>
            /\ pure.emb.exc = "none"
            /\ \A j \in 1..pure.space.vector_size :
                  pure.emb.val.n[j] * k = pure.emb.val.d * TokenSum(toks, pure.space, j)
            /\ pure.emb = get_text_embedding_call(Recase(pure.text), pure.space)

\* "Good good bad" has the embedding (2/3, 1/3): "good" counts twice.
C13_Witness ==
    /\ pure.op = "embed"
    /\ pure.space = SpaceFull
    /\ pure.text = <<"Good", Whitespace, "good", Whitespace, "bad">>
    /\ pure.emb.val = [n |-> <<2, 1>>, d |-> 3]

\* C14: cosine_sim raises ValueError for vectors of different lengths.
C14_LengthMismatchRaises ==
    (pure.op = "cosine" /\ Len(pure.vec1) # Len(pure.vec2)) => pure.sim.exc = "ValueError"

C14_Witness ==
    /\ pure.op = "cosine"
    /\ Len(pure.vec1) = 2 /\ Len(pure.vec2) = 1
    /\ pure.sim.exc = "ValueError"

Nonzero(v) == \E i \in 1..Len(v) : v[i] # 0

\* C15: for nonzero vectors of equal length, cosine_sim(v, v) = 1,
\* cosine_sim(v, -v) = -1 and cosine_sim(v, w) = 0 when v and w are orthogonal.
C15_CosineValues ==
    LET v == pure.vec1
        w == pure.vec2
    IN  (pure.op = "cosine" /\ Len(v) = Len(w) /\ Nonzero(v) /\ Nonzero(w)) =>
            /\ pure.sim.exc = "none"
            /\ v = w => pure.sim.val = <<1, 1>>
            /\ v = [i \in 1..Len(w) |-> -w[i]] => pure.sim.val = <<-1, 1>>
            /\ Dot(v, w) = 0 => pure.sim.val = <<0, 1>>

\* The similarity of (1, 2) and (-1, -2) is -1.
C15_Witness ==
    /\ pure.op = "cosine"
    /\ pure.vec1 = <<1, 2>> /\ pure.vec2 = <<-1, -2>>
    /\ pure.sim = [exc |-> "none", val |-> <<-1, 1>>]

\* ------------------------------------------------------------ the helpfulness counters

\* Largest helpfulness counter a caller sends (and the size of the smallest).
MaxCount == 2

\* Python values: an int, a str, or a field left out of the request.
PyInt(k) == [type |-> "int", int |-> k, str |-> ""]

PyStr(t) == [type |-> "str", int |-> 0, str |-> t]

Omitted == [type |-> "omitted", int |-> 0, str |-> ""]

\* Strings a caller can put where a counter is expected.
ArgStrings == {"3", "-1", "abc"}

\* int(t): the integer a numeric string denotes, "none" kept apart by IsNumeric.
IsNumeric(t) == t \in {"3", "-1"}

ParseInt(t) == IF t = "3" THEN 3 ELSE IF t = "-1" THEN -1 ELSE 0

\* A field "HelpfulnessNumerator: int = 1" of the request model: the default
\* for a field left out, an int as it is, a numeric string converted, anything
\* else rejected (HTTP 422, the handler does not run).
IntField(v) ==
    CASE v.type = "omitted" -> [exc |-> "none", val |-> PyInt(1)]
      [] v.type = "int"     -> [exc |-> "none", val |-> v]
      [] IsNumeric(v.str)   -> [exc |-> "none", val |-> PyInt(ParseInt(v.str))]
      [] OTHER              -> [exc |-> "RequestValidationError", val |-> v]

JsonCounters ==
    {Omitted} \cup {PyInt(k) : k \in (-MaxCount)..MaxCount} \cup {PyStr(t) : t \in ArgStrings}

ReviewTexts == {<<"Good">>, <<"fine", Whitespace, "good!">>, <<>>}

\* sys.argv[4:]: what follows the model path, the summary and the text.
ArgTails == UNION {[1..n -> ArgStrings] : n \in 0..3}

\* inference.py __main__: the counters handed to predict for the arguments
\* after the model path.
MainCounters(args) ==
    IF Len(args) = 4
    THEN [HelpfulnessNumerator |-> PyStr(args[3]),
          HelpfulnessDenominator |-> PyStr(args[4])]
    ELSE [HelpfulnessNumerator |-> PyInt(1), HelpfulnessDenominator |-> PyInt(1)]

\* InferenceEngine.predict with the counters as the Python values they are:
\* np.array of four floats and two ints is a float64 row, with a str among
\* them it is a row of strings.  handed: model.predict was called with it.
PredictRow(eng, summary, text, num, den) ==
    LET f == PredictFeatures(eng, [summary |-> summary, text |-> text,
                                  HelpfulnessNumerator |-> num.int,
                                  HelpfulnessDenominator |-> den.int])
        ok == f.exc = "none" /\ PredictScore(eng, f.input_data).exc = "none"
    IN  [handed |-> ok,
         dtype  |-> IF num.type = "int" /\ den.type = "int" THEN "float64" ELSE "str",
         HelpfulnessNumerator |-> num,
         HelpfulnessDenominator |-> den,
         input_data |-> IF num.type = "int" /\ den.type = "int" THEN f.input_data ELSE <<>>]

ServingFiles == {"m5", "m6"}

\* POST /predict with a JSON body, on a serving API.
PostPredict ==
    /\ pure = NoPure
    /\ \E summary \in ReviewTexts, text \in ReviewTexts, n \in JsonCounters, d \in JsonCounters,
          file \in ServingFiles :
          LET eng == InferenceEngine("path", NoneSpace, file, SpaceFull)
              num == IntField(n)
              den == IntField(d)
          IN  /\ pure' = IF num.exc # "none" \/ den.exc # "none"
                         THEN [op |-> "post", status |-> 422, sentNumerator |-> n,
                               sentDenominator |-> d,
                               row |-> [handed |-> FALSE, dtype |-> "none",
                                        HelpfulnessNumerator |-> n,
                                        HelpfulnessDenominator |-> d,
                                        input_data |-> <<>>]]
                         ELSE LET row == PredictRow(eng, summary, text, num.val, den.val)
                              IN  [op |-> "post", status |-> IF row.handed THEN 200 ELSE 500,
                                   sentNumerator |-> n, sentDenominator |-> d, row |-> row]
              /\ UNCHANGED <<caller, modelFile, glove, api, engine, calls, input_data, topic,
                             consumer, db>>

\* python inference.py model_path summary text [numerator denominator ...]
CommandLine ==
    /\ pure = NoPure
    /\ \E summary \in ReviewTexts, text \in ReviewTexts, tail \in ArgTails,
          file \in ServingFiles :
          LET eng == InferenceEngine("path", NoneSpace, file, SpaceFull)
              c   == MainCounters(<<summary, text>> \o tail)
              row == PredictRow(eng, summary, text, c.HelpfulnessNumerator,
                                c.HelpfulnessDenominator)
          IN  /\ pure' = [op |-> "cli", status |-> 0,
                          sentNumerator |-> IF Len(tail) >= 1 THEN PyStr(tail[1]) ELSE Omitted,
                          sentDenominator |-> IF Len(tail) >= 2 THEN PyStr(tail[2]) ELSE Omitted,
                          row |-> row]
              /\ UNCHANGED <<caller, modelFile, glove, api, engine, calls, input_data, topic,
                             consumer, db>>

NextInput == PostPredict \/ CommandLine \/ Returned

SpecInput == Init /\ [][NextInput]_vars

\* C16: in every feature vector handed to the model, from POST /predict or
\* from the command line, the helpfulness numerator and denominator are
\* integers >= 0, and each is 1 when the caller left it out.
C16_CountersAreNaturals ==
    (pure.op \in {"post", "cli"} /\ pure.row.handed) =>
        /\ \A c \in {pure.row.HelpfulnessNumerator, pure.row.HelpfulnessDenominator} :
              c.type = "int" /\ c.int >= 0
        /\ pure.sentNumerator = Omitted => pure.row.HelpfulnessNumerator = PyInt(1)
        /\ pure.sentDenominator = Omitted => pure.row.HelpfulnessDenominator = PyInt(1)

\* ------------------------------------------------------------ credential lookup

\* What a lookup finds around it:
\*   vault_connected  self.vault_connected (api.py, db_consumer.py); for
\*                    database.py, whether the module holds a cached client
\*   auth             what client.is_authenticated() does when called now
\*   read             what read_secret_version does: a secret, a secret whose
\*                    port is not a number, a response without data, an exception
\*   env              the environment variable: unset, set, or (DB_PORT) set to
\*                    something that is not a number
Surroundings ==
    [vault_connected : BOOLEAN,
     auth : {"yes", "no", "raises"},
     read : {"secret", "port_not_a_number", "malformed", "raises"},
     env  : {"unset", "set", "not_a_number"}]

FromVault == [exc |-> "none", source |-> "vault"]

\* os.environ.get(NAME, default) of a string setting.
FromEnviron(e) == [exc |-> "none", source |-> IF e.env = "unset" THEN "default" ELSE "env"]

\* int(os.environ.get("DB_PORT", "5432")) with the other settings.
FromEnvironWithPort(e) ==
    IF e.env = "not_a_number" THEN [exc |-> "ValueError", source |-> "none"]
    ELSE FromEnviron(e)

\* ReviewAPI._get_kafka_credentials
ApiGetKafkaCredentials(e) ==
    IF e.vault_connected /\ e.read \in {"secret", "port_not_a_number"}
    THEN FromVault
    ELSE FromEnviron(e)

\* DatabaseConsumer._get_kafka_credentials
ConsumerGetKafkaCredentials(e) ==
    IF e.vault_connected /\ e.read \in {"secret", "port_not_a_number"}
    THEN FromVault
    ELSE FromEnviron(e)

\* DatabaseConsumer._get_db_credentials: int(port) of the secret is inside
\* the try, int(DB_PORT) is not.
ConsumerGetDbCredentials(e) ==
    IF e.vault_connected /\ e.read = "secret"
    THEN FromVault
    ELSE FromEnvironWithPort(e)

\* A get_vault_client that keeps the client it created whatever the
\* authentication check says.
get_vault_client_kept(e) == [isNone |-> FALSE]

\* database.get_vault_client: the cached client, or a new one if it
\* authenticates; [isNone].
get_vault_client(e) ==
    IF e.vault_connected THEN [isNone |-> FALSE]
    ELSE [isNone |-> e.auth # "yes"]

\* database.get_db_credentials_from_vault: [exc, creds], creds "none" for None.
get_db_credentials_from_vault(e) ==
    LET client == get_vault_client(e)
    IN  IF client.isNone THEN [exc |-> "none", creds |-> "none"]
        ELSE IF e.auth = "raises" THEN [exc |-> "ConnectionError", creds |-> "none"]
        ELSE IF e.auth = "no" THEN [exc |-> "none", creds |-> "none"]
        ELSE IF e.read \in {"secret", "port_not_a_number"}
             THEN [exc |-> "none", creds |-> e.read]
             ELSE [exc |-> "none", creds |-> "none"]

\* database.get_connection up to the connection parameters.
GetConnectionCredentials(e) ==
    LET vault_credentials == get_db_credentials_from_vault(e)
    IN  IF vault_credentials.exc # "none"
        THEN [exc |-> vault_credentials.exc, source |-> "none"]
        ELSE IF vault_credentials.creds = "port_not_a_number"
        THEN [exc |-> "ValueError", source |-> "none"]
        ELSE IF vault_credentials.creds = "secret" THEN FromVault
        ELSE FromEnvironWithPort(e)

LookupNames == {"api.kafka", "consumer.kafka", "consumer.db", "database.db"}

LookupResult(which, e) ==
    CASE which = "api.kafka"      -> ApiGetKafkaCredentials(e)
      [] which = "consumer.kafka" -> ConsumerGetKafkaCredentials(e)
      [] which = "consumer.db"    -> ConsumerGetDbCredentials(e)
      [] OTHER                    -> GetConnectionCredentials(e)

\* One of the four lookups runs.
Lookup ==
    /\ pure = NoPure
    /\ \E which \in LookupNames, e \in Surroundings :
          /\ pure' = [op |-> "lookup", which |-> which, e |-> e,
                      res |-> LookupResult(which, e)]
          /\ UNCHANGED <<caller, modelFile, glove, api, engine, calls, input_data, topic,
                         consumer, db>>

NextLookup == Lookup \/ Returned

SpecLookup == Init /\ [][NextLookup]_vars

\* Vault is connected, as the lookup sees it.
Connected(which, e) ==
    IF which = "database.db" THEN e.auth = "yes" ELSE e.vault_connected

\* The secret is well formed for the lookup: only the database lookups read a port.
WellFormed(which, e) ==
    \/ e.read = "secret"
    \/ e.read = "port_not_a_number" /\ which \in {"api.kafka", "consumer.kafka"}

\* C18: a credential lookup never raises; it yields the Vault value exactly
\* when Vault is connected and the read returns a well-formed secret, and
\* otherwise the environment variable, or the built-in default when unset.
C18_LookupFallsBack ==
    pure.op = "lookup" =>
        /\ pure.res.exc = "none"
        /\ pure.res.source = "vault" <=>
              (Connected(pure.which, pure.e) /\ WellFormed(pure.which, pure.e))
        /\ pure.res.source # "vault" =>
              pure.res.source = IF pure.e.env = "unset" THEN "default" ELSE "env"

\* ------------------------------------------------------------ database.py

\* Largest max_retries a caller passes.
MaxRetries == 2

\* get_connection(max_retries=5, retry_delay=5)
DefaultMaxRetries == 5

DefaultRetryDelay == 5

\* time.sleep(2) between the attempts of create_tables, save_prediction, get_predictions
OperationRetryDelay == 2

\* Exceptions: the type, and the attempt that raised it (outer: the attempt of
\* create_tables / save_prediction / get_predictions, inner: the attempt of
\* get_connection; 0 where there is none).
Exception(type, outer, inner) == [type |-> type, outer |-> outer, inner |-> inner]

None == Exception("none", 0, 0)

\* raise x: raising None is a TypeError.
Raise(x) == IF x = None THEN Exception("TypeError", 0, 0) ELSE x

\* What happened during a call, in order.
\* connection: the connection the attempt worked on (0: it opened none).
ConnectEvent(ok, attempt) ==
    [ev |-> "connect", ok |-> ok, n |-> attempt, exc |-> None,
     connection |-> IF ok THEN attempt ELSE 0]

AttemptEvent(ok, attempt, exc, connection) ==
    [ev |-> "attempt", ok |-> ok, n |-> attempt, exc |-> exc, connection |-> connection]

SleepEvent(delay) ==
    [ev |-> "sleep", ok |-> FALSE, n |-> delay, exc |-> None, connection |-> 0]

\* A get_connection that waits after every failed attempt, the last included.
SleepsAfterEveryFailure(attempt, retries) == TRUE

\* "if attempt < max_retries - 1" before time.sleep
SleepsBeforeRetry(attempt, retries) == attempt < retries - 1

\* "last_exception = e"
KeepLast(last_exception, e) == e

\* The loop of get_connection from iteration attempt (0-based) on.
\* willConnect[k]: whether psycopg2.connect succeeds at the k-th attempt.
RECURSIVE ConnectLoop(_, _, _, _, _, _)
ConnectLoop(attempt, retries, retry_delay, willConnect, last_exception, trace) ==
    IF attempt >= retries
    THEN [exc |-> Raise(last_exception), site |-> "end", value |-> 0, trace |-> trace]
    ELSE IF willConnect[attempt + 1]
    THEN [exc |-> None, site |-> "none", value |-> attempt + 1,
          trace |-> Append(trace, ConnectEvent(TRUE, attempt + 1))]
    ELSE ConnectLoop(attempt + 1, retries, retry_delay, willConnect,
                     KeepLast(last_exception, Exception("OperationalError", 0, attempt + 1)),
                     trace \o <<ConnectEvent(FALSE, attempt + 1)>>
                           \o (IF SleepsBeforeRetry(attempt, retries)
                               THEN <<SleepEvent(retry_delay)>> ELSE <<>>))

\* database.get_connection: [exc, site, value, trace]; value is the connection,
\* named by the attempt that opened it.
get_connection(retries, retry_delay, e, willConnect) ==
    LET c == GetConnectionCredentials(e)
    IN  IF c.exc # "none"
        THEN [exc |-> Exception(c.exc, 0, 0), site |-> "lookup", value |-> 0, trace |-> <<>>]
        ELSE ConnectLoop(0, retries, retry_delay, willConnect, None, <<>>)

\* The surroundings of a database call: the secret is read from Vault, the
\* environment is used, or the authentication check raises.
DbSurroundings ==
    {e \in Surroundings : e.vault_connected /\ e.read = "secret" /\ e.env = "unset"}

\* What one attempt of an operation meets: the attempt of get_connection that
\* connects (0: none does), whether the statement goes through, and whether
\* connection.commit() does.
Attempts == [connectAt : 0..DefaultMaxRetries, executes : BOOLEAN, commits : BOOLEAN]

\* A connection of an operation, named by the attempt of the operation and the
\* attempt of get_connection that opened it; the local variable connection
\* before its first assignment.
Connection(outer, inner) == [outer |-> outer, inner |-> inner]

NotInLocals == Connection(0, 0)

\* What happened to the connections during a call, in order.
ConnectionEvent(ev, connection) == [ev |-> ev, connection |-> connection]

\* create_tables and save_prediction call connection.commit(); get_predictions
\* fetches and returns.
Commits(op) == op \in {"create_tables", "save_prediction"}

\* An operation without the finally clause.
FinallyKeepsOpen(connection, log) == log

\* "finally: if 'connection' in locals() and connection: connection.close()"
Finally(connection, log) ==
    IF connection # NotInLocals THEN Append(log, ConnectionEvent("close", connection)) ELSE log

\* The loop shared by create_tables, save_prediction and get_predictions from
\* iteration attempt (0-based) on. connection: the local variable, which keeps
\* its value from one iteration to the next.
RECURSIVE OperationLoop(_, _, _, _, _, _, _, _, _)
OperationLoop(op, attempt, retries, e, meets, last_exception, connection, trace, log) ==
    IF attempt >= retries
    THEN [exc |-> Raise(last_exception), site |-> "end", value |-> 0, trace |-> trace,
          log |-> log]
    ELSE LET m == meets[attempt + 1]
             got == get_connection(DefaultMaxRetries, DefaultRetryDelay, e,
                                   [k \in 1..DefaultMaxRetries |-> k = m.connectAt])
             local == IF got.exc = None THEN Connection(attempt + 1, got.value) ELSE connection
             raised == IF got.exc # None
                       THEN [got.exc EXCEPT !.outer = attempt + 1]
                       ELSE IF ~m.executes
                       THEN Exception("DatabaseError", attempt + 1, 0)
                       ELSE IF Commits(op) /\ ~m.commits
                       THEN Exception("OperationalError", attempt + 1, 0)
                       ELSE None
             used == log \o (IF got.exc = None
                             THEN <<ConnectionEvent("open", local)>> ELSE <<>>)
                         \o (IF got.exc = None /\ m.executes
                             THEN <<ConnectionEvent("execute", local)>> ELSE <<>>)
                         \o (IF raised = None /\ Commits(op)
                             THEN <<ConnectionEvent("commit", local)>> ELSE <<>>)
         IN  IF raised = None
             THEN [exc |-> None, site |-> "none", value |-> attempt + 1,
                   trace |-> Append(trace, AttemptEvent(TRUE, attempt + 1, None, got.value)),
                   log |-> Finally(local, used)]
             ELSE OperationLoop(op, attempt + 1, retries, e, meets,
                                KeepLast(last_exception, raised), local,
                                trace \o <<AttemptEvent(FALSE, attempt + 1, raised, got.value)>>
                                      \o (IF SleepsBeforeRetry(attempt, retries)
                                          THEN <<SleepEvent(OperationRetryDelay)>> ELSE <<>>),
                                Finally(local, used))

create_tables(retries, e, meets) ==
    OperationLoop("create_tables", 0, retries, e, meets, None, NotInLocals, <<>>, <<>>)

save_prediction(retries, e, meets) ==
    OperationLoop("save_prediction", 0, retries, e, meets, None, NotInLocals, <<>>, <<>>)

get_predictions(retries, e, meets) ==
    OperationLoop("get_predictions", 0, retries, e, meets, None, NotInLocals, <<>>, <<>>)

RetryDelays == {1, DefaultRetryDelay}

Finish(op, retries, retry_delay, res) ==
    [pc |-> IF res.exc = None THEN "returned" ELSE "raised", op |-> op,
     max_retries |-> retries, retry_delay |-> retry_delay, res |-> res]

\* get_connection(max_retries, retry_delay) is called.
GetConnection ==
    /\ db = NoDb
    /\ \E retries \in 0..MaxRetries, retry_delay \in RetryDelays, e \in DbSurroundings :
       \E willConnect \in [1..retries -> BOOLEAN] :
          /\ db' = Finish("get_connection", retries, retry_delay,
                          get_connection(retries, retry_delay, e, willConnect))
          /\ UNCHANGED <<caller, modelFile, glove, api, engine, calls, input_data, topic,
                         pure, consumer>>

\* create_tables(max_retries) is called.
CreateTables ==
    /\ db = NoDb
    /\ \E retries \in 0..MaxRetries, e \in DbSurroundings :
       \E meets \in [1..retries -> Attempts] :
          /\ db' = Finish("create_tables", retries, OperationRetryDelay,
                          create_tables(retries, e, meets))
          /\ UNCHANGED <<caller, modelFile, glove, api, engine, calls, input_data, topic,
                         pure, consumer>>

\* save_prediction(..., max_retries) is called.
SavePrediction ==
    /\ db = NoDb
    /\ \E retries \in 0..MaxRetries, e \in DbSurroundings :
       \E meets \in [1..retries -> Attempts] :
          /\ db' = Finish("save_prediction", retries, OperationRetryDelay,
                          save_prediction(retries, e, meets))
          /\ UNCHANGED <<caller, modelFile, glove, api, engine, calls, input_data, topic,
                         pure, consumer>>

\* get_predictions(limit, max_retries) is called.
GetPredictions ==
    /\ db = NoDb
    /\ \E retries \in 0..MaxRetries, e \in DbSurroundings :
       \E meets \in [1..retries -> Attempts] :
          /\ db' = Finish("get_predictions", retries, OperationRetryDelay,
                          get_predictions(retries, e, meets))
          /\ UNCHANGED <<caller, modelFile, glove, api, engine, calls, input_data, topic,
                         pure, consumer>>

\* The caller has the result or the exception.
DbDone ==
    /\ db # NoDb
    /\ db' = NoDb
    /\ UNCHANGED <<caller, modelFile, glove, api, engine, calls, input_data, topic,
                   pure, consumer>>

NextDb == GetConnection \/ CreateTables \/ SavePrediction \/ GetPredictions \/ DbDone

SpecDb == Init /\ [][NextDb]_vars

Tries(trace) == {i \in 1..Len(trace) : trace[i].ev \in {"connect", "attempt"}}

\* C19: get_connection makes at most max_retries attempts, returns the
\* connection of the first attempt that succeeds, makes no attempt after a
\* success, and waits retry_delay between consecutive attempts but not after
\* the last one.
C19_ConnectionRetries ==
    LET t == db.res.trace
    IN  (db.pc # "none" /\ db.op = "get_connection") =>
            /\ Cardinality(Tries(t)) <= db.max_retries
            /\ \A i \in Tries(t) : t[i].ok => (i = Len(t) /\ db.pc = "returned"
                                               /\ db.res.value = t[i].n)
            /\ db.pc = "returned" => (t # <<>> /\ t[Len(t)].ok)
            /\ \A i \in 1..(Len(t) - 1) :
                  /\ t[i].ev = "connect" => t[i + 1] = SleepEvent(db.retry_delay)
                  /\ t[i].ev = "sleep" => t[i + 1].ev = "connect"
            /\ t # <<>> => t[Len(t)].ev = "connect"

\* The first attempt failed, the call waited once and the second attempt
\* connected.
C19_Witness ==
    /\ db.pc = "returned" /\ db.op = "get_connection"
    /\ db.max_retries = 2
    /\ db.res.trace = <<ConnectEvent(FALSE, 1), SleepEvent(db.retry_delay), ConnectEvent(TRUE, 2)>>
    /\ db.res.value = 2

\* C20: for every max_retries >= 0, when all attempts fail, get_connection,
\* create_tables, save_prediction and get_predictions raise the exception of
\* the last failed attempt; they never return normally without having succeeded.
C20_RaisesLastFailure ==
    LET t == db.res.trace
        failed == {i \in Tries(t) : ~t[i].ok}
    IN  /\ (db.pc = "raised" /\ db.res.site = "end") =>
              /\ failed # {}
              /\ \E i \in failed :
                    /\ \A j \in failed : j <= i
                    /\ db.res.exc = IF db.op = "get_connection"
                                    THEN Exception("OperationalError", 0, t[i].n)
                                    ELSE t[i].exc
        /\ db.pc = "returned" => (t # <<>> /\ t[Len(t)].ok)

\* The connections open after the first n events of a log.
OpenAfter(log, n) ==
    {c \in {log[i].connection : i \in 1..n} :
        \E i \in 1..n : /\ log[i] = ConnectionEvent("open", c)
                        /\ \A j \in (i + 1)..n : log[j] # ConnectionEvent("close", c)}

Operations == {"create_tables", "save_prediction", "get_predictions"}

\* C27: every connection opened by create_tables, save_prediction or
\* get_predictions is closed before the function returns or raises, on every
\* attempt including failed ones: no connection is open after the call, at
\* most one is open at any time, and a connection is used only while open;
\* save_prediction commits at most one inserted row per call.
C27_ConnectionsClosed ==
    (db.pc # "none" /\ db.op \in Operations) =>
        LET log == db.res.log
            commits == {i \in 1..Len(log) : log[i].ev = "commit"}
        IN  /\ OpenAfter(log, Len(log)) = {}
            /\ \A n \in 0..Len(log) : Cardinality(OpenAfter(log, n)) <= 1
            /\ \A i \in 1..Len(log) :
                  /\ log[i].ev \in {"open", "execute", "commit"} =>
                        log[i].connection \in OpenAfter(log, i)
                  /\ log[i].ev = "open" => log[i].connection \notin OpenAfter(log, i - 1)
            /\ Cardinality({i \in 1..Len(log) : log[i].ev = "open"})
                  = Cardinality({i \in Tries(db.res.trace) : db.res.trace[i].connection # 0})
            /\ Cardinality(commits) <= 1
            /\ \A i \in commits : /\ db.pc = "returned"
                                  /\ i = Len(log) - 1
                                  /\ log[i - 1] = ConnectionEvent("execute", log[i].connection)
            /\ (db.pc = "returned" /\ Commits(db.op)) => commits # {}

\* save_prediction inserted on a first connection whose commit failed, and
\* on the second attempt inserted and committed the row on a new connection;
\* each connection was closed by the attempt that opened it.
C27_Witness ==
    /\ db.pc = "returned" /\ db.op = "save_prediction"
    /\ \E c1, c2 \in {Connection(o, i) : o \in 1..MaxRetries, i \in 1..DefaultMaxRetries} :
          /\ c1.outer = 1 /\ c2.outer = 2
          /\ db.res.log = <<ConnectionEvent("open", c1), ConnectionEvent("execute", c1),
                            ConnectionEvent("close", c1),
                            ConnectionEvent("open", c2), ConnectionEvent("execute", c2),
                            ConnectionEvent("commit", c2), ConnectionEvent("close", c2)>>

\* ------------------------------------------------------------ api.py to db_consumer.py

\* The value of a member that an object on the topic does not have.
Absent == [model |-> "absent", x |-> <<>>]

\* json.dumps(v): the members of the object, in the order of the dict.
json_dumps(v) ==
    << <<"summary", v.summary>>, <<"text", v.text>>,
       <<"helpfulness_numerator", v.helpfulness_numerator>>,
       <<"helpfulness_denominator", v.helpfulness_denominator>> >>
    \o (IF v.prediction = Absent THEN <<>> ELSE << <<"prediction", v.prediction>> >>)

\* key in json.loads(x)
HasMember(x, key) == \E i \in 1..Len(x) : x[i][1] = key

\* json.loads(x)[key]
Member(x, key) == x[CHOOSE i \in 1..Len(x) : x[i][1] = key][2]

\* json.loads(x): the dict the consumer reads its keys from.
json_loads(x) ==
    [summary |-> Member(x, "summary"), text |-> Member(x, "text"),
     helpfulness_numerator |-> Member(x, "helpfulness_numerator"),
     helpfulness_denominator |-> Member(x, "helpfulness_denominator"),
     prediction |-> Member(x, "prediction")]

\* An INSERT whose values have the counters in the other order.
InsertValuesSwapped(prediction_data) ==
    <<prediction_data.summary, prediction_data.text,
      prediction_data.helpfulness_denominator, prediction_data.helpfulness_numerator,
      prediction_data.prediction>>

\* The values of the INSERT of save_to_database, in the order given.
InsertValues(prediction_data) ==
    <<prediction_data.summary, prediction_data.text,
      prediction_data.helpfulness_numerator, prediction_data.helpfulness_denominator,
      prediction_data.prediction>>

\* The row of table predictions made of the values, by its column list
\* (id and created_at are the database's).
InsertedRow(values) ==
    [summary |-> values[1], text |-> values[2], helpfulness_numerator |-> values[3],
     helpfulness_denominator |-> values[4], prediction |-> values[5]]

\* A ReviewAPI that was constructed on a model file that loads and is serving.
ServingApi(file, vault_ok, connects) ==
    LET r == ApiLoadModel(file, SpaceFull)
    IN  [NoApi EXCEPT !.pc = "serving", !.model_path = "path",
                      !.word_vectors = r.engine.word_vectors, !.model = r.engine.model,
                      !.vault_connected = vault_ok, !.kafka_producer = connects,
                      !.kafka_connected = connects,
                      !.attempt = IF connects THEN 0 ELSE max_retries,
                      !.hasEngine = TRUE]

\* A DatabaseConsumer at the start of __init__.  db_connection: a
\* connection was opened; table_exists: CREATE TABLE IF NOT EXISTS went through;
\* db_attempts, kafka_attempts: attempts made by the two setups; offset:
\* messages consumed; saves: the calls of save_to_database in order, with
\* their results; table: the rows inserted.
NewConsumer ==
    [pc |-> "vault", vault_connected |-> FALSE, db_connection |-> FALSE,
     table_exists |-> FALSE, db_connected |-> FALSE, kafka_connected |-> FALSE,
     db_attempts |-> 0, kafka_attempts |-> 0, exc |-> "none",
     offset |-> 0, saves |-> <<>>, table |-> <<>>]

\* A DatabaseConsumer after __init__ returned: both setups succeeded (each
\* raises otherwise), here at their first attempts.
ConstructedConsumer(vault_ok) ==
    [NewConsumer EXCEPT !.pc = "constructed", !.vault_connected = vault_ok,
                        !.db_connection = TRUE, !.table_exists = TRUE,
                        !.db_connected = TRUE, !.kafka_connected = TRUE,
                        !.db_attempts = 1, !.kafka_attempts = 1]

\* Both services are up, no request was made yet.
InitPipeline ==
    /\ caller = "api"
    /\ \E file \in ServingFiles, vault_ok \in BOOLEAN, connects \in BOOLEAN :
          /\ modelFile = file
          /\ api = ServingApi(file, vault_ok, connects)
          /\ engine = ApiLoadModel(file, SpaceFull).engine
          /\ consumer = ConstructedConsumer(vault_ok)
    /\ glove = SpaceFull
    /\ calls = [r \in Calls |-> NoCall]
    /\ input_data = [r \in Calls |-> <<>>]
    /\ topic = <<>>
    /\ pure = NoPure
    /\ db = NoDb

\* DatabaseConsumer.run up to the loop over the messages.
ConsumerRun ==
    /\ consumer.pc = "constructed"
    /\ consumer' = [consumer EXCEPT !.pc = IF consumer.kafka_connected /\ consumer.db_connected
                                           THEN "running" ELSE "stopped"]
    /\ UNCHANGED <<caller, modelFile, glove, api, engine, calls, input_data, topic, pure, db>>

\* DatabaseConsumer.save_to_database: [ok, table]; stored: whether the INSERT
\* goes through.
save_to_database(table, prediction_data, stored) ==
    IF stored
    THEN [ok |-> TRUE, table |-> Append(table, InsertedRow(InsertValues(prediction_data)))]
    ELSE [ok |-> FALSE, table |-> table]

\* A run that lets the exception of a failed INSERT out of the loop.
ConsumerConsumeStops ==
    /\ consumer.pc = "running"
    /\ consumer.offset < Len(topic)
    /\ \E stored \in BOOLEAN :
          LET prediction_data == json_loads(json_dumps(topic[consumer.offset + 1]))
              res == save_to_database(consumer.table, prediction_data, stored)
          IN  consumer' = [consumer EXCEPT
                             !.offset = @ + 1,
                             !.saves = Append(@, [message |-> consumer.offset + 1,
                                                  ok |-> res.ok]),
                             !.table = res.table,
                             !.pc = IF res.ok THEN @ ELSE "raised",
                             !.exc = IF res.ok THEN @ ELSE "DatabaseError"]
    /\ UNCHANGED <<caller, modelFile, glove, api, engine, calls, input_data, topic, pure, db>>

\* One iteration of the loop of run: the next message of the topic is
\* deserialized, its prediction is logged (KeyError without that key: run
\* raises and the process ends) and it is handed to save_to_database.
ConsumerConsume ==
    /\ consumer.pc = "running"
    /\ consumer.offset < Len(topic)
    /\ \E stored \in BOOLEAN :
          LET value == json_dumps(topic[consumer.offset + 1])
          IN  IF ~HasMember(value, "prediction")
              THEN consumer' = [consumer EXCEPT !.offset = @ + 1, !.pc = "raised",
                                                !.exc = "KeyError"]
              ELSE LET prediction_data == json_loads(value)
                       res == save_to_database(consumer.table, prediction_data, stored)
                   IN  consumer' = [consumer EXCEPT
                                      !.offset = @ + 1,
                                      !.saves = Append(@, [message |-> consumer.offset + 1,
                                                           ok |-> res.ok]),
                                      !.table = res.table]
    /\ UNCHANGED <<caller, modelFile, glove, api, engine, calls, input_data, topic, pure, db>>

NextPipeline ==
    \/ \E r \in Calls : HandlerCall(r)
    \/ \E r \in Calls : EngineFeatures(r)
    \/ \E r \in Calls : EngineScore(r)
    \/ \E r \in Calls : HandlerReturn(r)
    \/ \E r \in Calls : HandlerExcept(r)
    \/ ConsumerRun
    \/ ConsumerConsume

SpecPipeline == InitPipeline /\ [][NextPipeline]_vars

\* The record carries the fields of request r and the prediction returned for it.
RecordOf(rec, r) ==
    /\ calls[r].pc = "done" /\ calls[r].status = 200 /\ calls[r].kafka = "sent"
    /\ rec.summary = calls[r].inp.summary
    /\ rec.text = calls[r].inp.text
    /\ rec.helpfulness_numerator = calls[r].inp.HelpfulnessNumerator
    /\ rec.helpfulness_denominator = calls[r].inp.HelpfulnessDenominator
    /\ rec.prediction = calls[r].body

\* C17: every record on the topic, and every row the consumer inserted,
\* carries the summary, text, numerator and denominator of one request and
\* the prediction returned to that request's caller.
C17_RecordOfOneRequest ==
    /\ \A i \in 1..Len(topic) : \E r \in Calls : RecordOf(topic[i], r)
    /\ \A i \in 1..Len(consumer.table) : \E r \in Calls : RecordOf(consumer.table[i], r)

\* Two different requests were answered and published, and the consumer
\* stored both records.
C17_Witness ==
    /\ Len(topic) = 2 /\ topic[1] # topic[2]
    /\ Len(consumer.table) = 2
    /\ consumer.table[1] = topic[1] /\ consumer.table[2] = topic[2]
    /\ topic[1].helpfulness_numerator # topic[1].helpfulness_denominator

\* ------------------------------------------------------------ api.py: the Kafka producer

\* A /kafka-status that marks the producer connected again when the check passes.
KafkaStatusRestores ==
    /\ api.pc = "serving"
    /\ \E reachable \in BOOLEAN :
          api' = IF ~api.kafka_producer THEN api
                 ELSE [api EXCEPT !.kafka_connected = reachable]
    /\ UNCHANGED <<caller, modelFile, glove, engine, calls, input_data, topic, pure, consumer, db>>

\* GET /kafka-status: 503 without a producer; otherwise the broker is asked
\* (the test message goes to 'test-topic'), and a failing check sets
\* kafka_connected = False.
KafkaStatus ==
    /\ api.pc = "serving"
    /\ \E reachable \in BOOLEAN :
          api' = IF ~api.kafka_producer \/ reachable THEN api
                 ELSE [api EXCEPT !.kafka_connected = FALSE]
    /\ UNCHANGED <<caller, modelFile, glove, engine, calls, input_data, topic, pure, consumer, db>>

\* The API process: construction, then the handlers of the server.
NextApi ==
    \/ ApiSetupVault
    \/ ApiSetupKafka
    \/ ApiLoad
    \/ ApiRun
    \/ \E r \in Calls : HandlerCall(r)
    \/ \E r \in Calls : EngineFeatures(r)
    \/ \E r \in Calls : EngineScore(r)
    \/ \E r \in Calls : HandlerReturn(r)
    \/ \E r \in Calls : HandlerExcept(r)
    \/ KafkaStatus

SpecApi == Init /\ [][NextApi]_vars

\* C21: construction makes at most 10 Kafka connection attempts and stops at
\* the first success; when all 10 fail, construction goes on without raising,
\* with kafka_connected = False, and POST /predict still returns predictions,
\* without publishing.
C21_KafkaSetupBestEffort ==
    /\ api.attempt <= max_retries
    /\ api.pc = "kafka" => (api.attempt < max_retries /\ ~api.kafka_producer
                            /\ ~api.kafka_connected)
    /\ api.kafka_producer => api.attempt < max_retries
    /\ api.pc = "failed" => modelFile # "unread"
    /\ api.attempt = max_retries =>
          /\ ~api.kafka_connected
          /\ topic = <<>>
          /\ \A r \in Calls :
                (calls[r].pc = "done" /\ calls[r].prediction # NoPrediction) =>
                    /\ calls[r].status = 200
                    /\ calls[r].body = calls[r].prediction
                    /\ calls[r].kafka = "skipped"

\* All ten attempts failed, the API serves and answered a request with a
\* prediction.
C21_Witness ==
    /\ api.attempt = max_retries
    /\ api.pc = "serving"
    /\ \E r \in Calls : /\ calls[r].pc = "done" /\ calls[r].status = 200
                        /\ calls[r].kafka = "skipped" /\ calls[r].body # NoPrediction

Sent == {r \in Calls : calls[r].kafka = "sent"}

\* C25: for each POST /predict request at most one message is sent to the
\* topic, only after the engine returned a prediction for that request; none
\* is sent for a request whose prediction raised, nor while kafka_connected
\* is false.
C25_AtMostOneMessage ==
    /\ [](/\ Len(topic) = Cardinality(Sent)
          /\ \A r \in Calls :
                /\ calls[r].kafka = "sent" =>
                      (calls[r].exc = "none" /\ calls[r].prediction # NoPrediction)
                /\ calls[r].exc # "none" => calls[r].kafka = "none")
    /\ [][topic' # topic =>
            /\ api.kafka_connected
            /\ \E r \in Calls :
                  /\ calls[r].pc = "returned" /\ calls'[r].pc = "done"
                  /\ calls[r].kafka = "none"
                  /\ topic' = Append(topic, Message(calls[r].inp, calls[r].prediction))
                  /\ \A q \in Calls \ {r} : calls'[q] = calls[q]]_vars

\* One request was published; another got its prediction while the send failed.
C25_Witness ==
    /\ Len(topic) = 1
    /\ \E r \in Calls, q \in Calls :
          /\ calls[r].pc = "done" /\ calls[r].kafka = "sent"
          /\ calls[q].pc = "done" /\ calls[q].kafka = "failed" /\ calls[q].status = 200

\* C26: once ReviewAPI is constructed, kafka_connected never changes from
\* False to True; only a failed GET /kafka-status changes it, to False, and
\* from then on no prediction is published; kafka_connected = True implies
\* that kafka_producer is not None.
C26_KafkaConnectedOnlyFalls ==
    /\ [](api.kafka_connected => api.kafka_producer)
    /\ [][/\ (api.pc \notin {"none", "kafka"} /\ ~api.kafka_connected) =>
                (~api'.kafka_connected /\ topic' = topic)
          /\ (api.pc \notin {"none", "kafka"} /\ api'.kafka_connected # api.kafka_connected) =>
                (api.pc = "serving" /\ api.kafka_producer /\ api'.kafka_producer
                 /\ calls' = calls)]_vars

\* The status check failed on a connected producer; a request made afterwards
\* was answered without being published.
C26_Witness ==
    /\ api.pc = "serving"
    /\ api.kafka_producer /\ ~api.kafka_connected
    /\ topic = <<>>
    /\ \E r \in Calls : calls[r].pc = "done" /\ calls[r].kafka = "skipped"

\* ------------------------------------------------------------ database.py: the Vault client

\* Most calls of get_vault_client in one process.
MaxVaultCalls == 3

\* vault_client = None
NoClient == [isNone |-> TRUE, id |-> 0, authenticated |-> FALSE]

\* Who calls get_vault_client.
VaultCallers == {"ReviewAPI._setup_vault", "get_db_credentials_from_vault"}

\* The module after import: no client, no call made.  trace: for every call,
\* who made it, whether it found a client, what is_authenticated() did if it
\* was asked, and the value returned.
InitVault ==
    /\ SystemIdle
    /\ pure = [op |-> "vault", vault_client |-> NoClient, created |-> 0, trace |-> <<>>]
    /\ consumer = NoConsumer
    /\ db = NoDb

\* One call of get_vault_client().  creation covers hvac.Client(url), setting
\* the token and is_authenticated(); an exception in any of them is caught.
GetVaultClient ==
    /\ pure.op = "vault"
    /\ Len(pure.trace) < MaxVaultCalls
    /\ \E who \in VaultCallers, auth \in {"yes", "no", "raises"} :
          LET cached == ~pure.vault_client.isNone
              e   == [vault_connected |-> cached, auth |-> auth, read |-> "secret",
                      env |-> "unset"]
              res == get_vault_client(e)
              new == IF cached THEN pure.vault_client
                     ELSE IF res.isNone THEN NoClient
                     ELSE [isNone |-> FALSE, id |-> pure.created + 1,
                           authenticated |-> auth = "yes"]
          IN  /\ cached => auth = "yes"
              /\ pure' = [pure EXCEPT
                            !.vault_client = new,
                            !.created = IF cached THEN @ ELSE @ + 1,
                            !.trace = Append(@, [who |-> who, cached |-> cached,
                                                 auth |-> IF cached THEN "not asked" ELSE auth,
                                                 returned |-> new])]
    /\ UNCHANGED <<caller, modelFile, glove, api, engine, calls, input_data, topic,
                   consumer, db>>

NextVault == GetVaultClient

SpecVault == InitVault /\ [][NextVault]_vars

\* C22: after any sequence of get_vault_client calls, vault_client is None
\* or a client whose authentication check succeeded when it was created, and
\* the call returned that value; a call that finds a client returns it
\* without creating one, and a call whose creation or authentication fails
\* leaves None, so that the next call tries again.
C22_VaultClientCache ==
    pure.op = "vault" =>
        LET t == pure.trace
        IN  /\ pure.vault_client.isNone \/ pure.vault_client.authenticated
            /\ t # <<>> => t[Len(t)].returned = pure.vault_client
            /\ \A i \in 1..Len(t) :
                  LET before == IF i = 1 THEN NoClient ELSE t[i - 1].returned
                  IN  /\ t[i].cached <=> ~before.isNone
                      /\ t[i].cached => t[i].returned = before
                      /\ (~t[i].cached /\ t[i].auth # "yes") => t[i].returned = NoClient
                      /\ (~t[i].cached /\ t[i].auth = "yes") =>
                            (~t[i].returned.isNone /\ t[i].returned # before)

\* A call failed to authenticate, the next one created a client, the third
\* returned that client.
C22_Witness ==
    /\ pure.op = "vault"
    /\ Len(pure.trace) = 3
    /\ pure.trace[1].auth = "raises" /\ pure.trace[1].returned = NoClient
    /\ pure.trace[2].auth = "yes" /\ ~pure.trace[2].returned.isNone
    /\ pure.trace[3].cached /\ pure.trace[3].returned = pure.trace[2].returned

\* ------------------------------------------------------------ db_consumer.py: the process

\* Most messages on the topic.
MaxMessages == 2

\* max_retries of DatabaseConsumer._setup_database
ConsumerDbRetries == 5

\* max_retries of DatabaseConsumer._setup_kafka
ConsumerKafkaRetries == 10

\* The messages the API publishes for the inputs; api.py is the only
\* producer of topic 'predictions'.
ApiMessages ==
    {Message(inp, ModelPredict(CatBoostModel("m6"),
                               PredictFeatures(InferenceEngine("path", NoneSpace, "m6", SpaceFull),
                                               inp).input_data)) : inp \in Inputs}

\* DatabaseConsumer() is called in a new process.
InitConsumer ==
    /\ SystemIdle
    /\ pure = NoPure
    /\ consumer = NewConsumer
    /\ db = NoDb

\* The API appends a message to topic 'predictions'.
TopicAppend ==
    /\ consumer.pc # "none"
    /\ Len(topic) < MaxMessages
    /\ \E m \in ApiMessages : topic' = Append(topic, m)
    /\ UNCHANGED <<caller, modelFile, glove, api, engine, calls, input_data, pure, consumer, db>>

\* DatabaseConsumer._setup_vault: never raises.
ConsumerSetupVault ==
    /\ consumer.pc = "vault"
    /\ \E authenticated \in BOOLEAN :
          consumer' = [consumer EXCEPT !.vault_connected = authenticated, !.pc = "database"]
    /\ UNCHANGED <<caller, modelFile, glove, api, engine, calls, input_data, topic, pure, db>>

\* One iteration of the loop of DatabaseConsumer._setup_database: connect,
\* then create the table; after the last failed attempt the method raises.
ConsumerSetupDatabase ==
    /\ consumer.pc = "database"
    /\ consumer.db_attempts < ConsumerDbRetries
    /\ \E outcome \in {"ok", "no connection", "no table"} :
          consumer' =
             IF outcome = "ok"
             THEN [consumer EXCEPT !.db_attempts = @ + 1, !.db_connection = TRUE,
                                   !.table_exists = TRUE, !.db_connected = TRUE,
                                   !.pc = "kafka"]
             ELSE [consumer EXCEPT
                     !.db_attempts = @ + 1,
                     !.db_connection = @ \/ outcome = "no table",
                     !.pc = IF consumer.db_attempts + 1 < ConsumerDbRetries
                            THEN "database" ELSE "failed",
                     !.exc = IF consumer.db_attempts + 1 < ConsumerDbRetries
                             THEN "none" ELSE "Failed to connect to database"]
    /\ UNCHANGED <<caller, modelFile, glove, api, engine, calls, input_data, topic, pure, db>>

\* A _setup_kafka that gives up quietly after the last failed attempt, as
\* the API's does.
ConsumerSetupKafkaQuiet ==
    /\ consumer.pc = "kafka"
    /\ consumer.kafka_attempts < ConsumerKafkaRetries
    /\ \E connects \in BOOLEAN :
          consumer' =
             IF connects
             THEN [consumer EXCEPT !.kafka_attempts = @ + 1, !.kafka_connected = TRUE,
                                   !.pc = "constructed"]
             ELSE [consumer EXCEPT
                     !.kafka_attempts = @ + 1,
                     !.pc = IF consumer.kafka_attempts + 1 < ConsumerKafkaRetries
                            THEN "kafka" ELSE "constructed"]
    /\ UNCHANGED <<caller, modelFile, glove, api, engine, calls, input_data, topic, pure, db>>

\* One iteration of the loop of DatabaseConsumer._setup_kafka; after the
\* last failed attempt the method raises.
ConsumerSetupKafka ==
    /\ consumer.pc = "kafka"
    /\ consumer.kafka_attempts < ConsumerKafkaRetries
    /\ \E connects \in BOOLEAN :
          consumer' =
             IF connects
             THEN [consumer EXCEPT !.kafka_attempts = @ + 1, !.kafka_connected = TRUE,
                                   !.pc = "constructed"]
             ELSE [consumer EXCEPT
                     !.kafka_attempts = @ + 1,
                     !.pc = IF consumer.kafka_attempts + 1 < ConsumerKafkaRetries
                            THEN "kafka" ELSE "failed",
                     !.exc = IF consumer.kafka_attempts + 1 < ConsumerKafkaRetries
                             THEN "none" ELSE "Failed to connect to Kafka"]
    /\ UNCHANGED <<caller, modelFile, glove, api, engine, calls, input_data, topic, pure, db>>

NextConsumer ==
    \/ TopicAppend
    \/ ConsumerSetupVault
    \/ ConsumerSetupDatabase
    \/ ConsumerSetupKafka
    \/ ConsumerRun
    \/ ConsumerConsume

SpecConsumer == InitConsumer /\ [][NextConsumer]_vars

\* The rows of the messages whose save succeeded, in order.
RECURSIVE Stored(_)
Stored(saves) ==
    IF saves = <<>> THEN <<>>
    ELSE LET last == saves[Len(saves)]
             init == Stored(SubSeq(saves, 1, Len(saves) - 1))
         IN  IF last.ok THEN Append(init, topic[last.message]) ELSE init

C24_ConsumerSetupOrder ==
    /\ consumer.db_attempts <= ConsumerDbRetries
    /\ consumer.kafka_attempts <= ConsumerKafkaRetries
    /\ consumer.pc = "vault" => (consumer.db_attempts = 0 /\ consumer.kafka_attempts = 0)
    /\ consumer.kafka_attempts > 0 =>
          (consumer.db_connected /\ consumer.db_connection /\ consumer.table_exists)
    /\ consumer.db_connected => (consumer.db_connection /\ consumer.table_exists)
    /\ (consumer.db_attempts = ConsumerDbRetries /\ ~consumer.db_connected) =>
          (consumer.pc = "failed" /\ consumer.exc = "Failed to connect to database")
    /\ (consumer.kafka_attempts = ConsumerKafkaRetries /\ ~consumer.kafka_connected) =>
          (consumer.pc = "failed" /\ consumer.exc = "Failed to connect to Kafka")
    /\ consumer.pc \in {"constructed", "running", "raised"} =>
          (consumer.db_connected /\ consumer.kafka_connected)
    /\ (consumer.offset > 0 \/ consumer.table # <<>>) =>
          (consumer.db_connected /\ consumer.kafka_connected /\ consumer.table_exists)
    /\ consumer.pc \in {"failed", "stopped"} => consumer.offset = 0

\* The database was reached at the fifth attempt, Kafka at the tenth, and a
\* message was consumed and stored.
C24_Witness ==
    /\ consumer.db_attempts = ConsumerDbRetries
    /\ consumer.kafka_attempts = ConsumerKafkaRetries
    /\ consumer.pc = "running"
    /\ consumer.offset = 1 /\ Len(consumer.table) = 1

\* ------------------------------------------------------------ utils.py: create_dirs

\* Calls of create_dirs per process, and the highest train<N> that exists
\* before any process starts.
MaxDirCalls == 2

MaxOldDir == 2

\* Two processes that train.
Procs == {1, 2}

\* "current_train_number = 1"
FirstTrainNumber == 1

\* get_output_path(): './runs/train' + str(current_train_number) + '/'
get_output_path(current_train_number) == <<"./runs/train", current_train_number, "/">>

\* A process that imported utils and has not called create_dirs.
NewProc ==
    [pc |-> "idle", current_train_number |-> FirstTrainNumber, ncalls |-> 0,
     prev |-> FirstTrainNumber, before |-> {}, last |-> "none"]

\* The file system holds ./runs or not, and some directories ./runs/train<N>;
\* no process has called create_dirs.
InitDirs ==
    /\ SystemIdle
    /\ consumer = NoConsumer
    /\ db = NoDb
    /\ \E runs \in BOOLEAN, dirs \in SUBSET (1..MaxOldDir) :
          /\ dirs # {} => runs
          /\ pure = [op |-> "dirs", runs |-> runs, dirs |-> dirs,
                     proc |-> [p \in Procs |-> NewProc], returns |-> <<>>]

DirsUnchanged ==
    UNCHANGED <<caller, modelFile, glove, api, engine, calls, input_data, topic, consumer, db>>

\* Process p calls create_dirs.
CreateDirsCall(p) ==
    /\ pure.proc[p].pc = "idle"
    /\ pure.proc[p].ncalls < MaxDirCalls
    /\ pure' = [pure EXCEPT !.proc[p] =
                   [@ EXCEPT !.pc = "runs exists", !.ncalls = @ + 1,
                             !.prev = pure.proc[p].current_train_number,
                             !.before = pure.dirs, !.last = "none"]]
    /\ DirsUnchanged

\* "if not os.path.exists('./runs')"
RunsExists(p) ==
    /\ pure.proc[p].pc = "runs exists"
    /\ pure' = [pure EXCEPT !.proc[p].pc = IF pure.runs THEN "train exists" ELSE "make runs"]
    /\ DirsUnchanged

\* "os.makedirs('./runs')": raises FileExistsError when the directory exists.
MakeRuns(p) ==
    /\ pure.proc[p].pc = "make runs"
    /\ pure' = IF pure.runs
               THEN [pure EXCEPT !.proc[p].pc = "idle", !.proc[p].last = "FileExistsError"]
               ELSE [pure EXCEPT !.runs = TRUE, !.proc[p].pc = "train exists"]
    /\ DirsUnchanged

\* "while os.path.exists('./runs/train' + str(current_train_number)):
\*      current_train_number += 1"
TrainExists(p) ==
    /\ pure.proc[p].pc = "train exists"
    /\ pure' = IF pure.proc[p].current_train_number \in pure.dirs
               THEN [pure EXCEPT !.proc[p].current_train_number = @ + 1]
               ELSE [pure EXCEPT !.proc[p].pc = "make train"]
    /\ DirsUnchanged

\* A makedirs with exist_ok=True.
MakeTrainExistOk(p) ==
    /\ pure.proc[p].pc = "make train"
    /\ LET n == pure.proc[p].current_train_number
       IN  pure' = [pure EXCEPT
                      !.dirs = @ \cup {n},
                      !.proc[p].pc = "idle", !.proc[p].last = "returned",
                      !.returns = Append(@, [proc |-> p, prev |-> pure.proc[p].prev,
                                             before |-> pure.proc[p].before,
                                             at |-> pure.dirs,
                                             path |-> get_output_path(n)])]
    /\ DirsUnchanged

\* "os.makedirs('./runs/train' + str(current_train_number))": raises
\* FileExistsError when the directory exists; otherwise create_dirs returns.
MakeTrain(p) ==
    /\ pure.proc[p].pc = "make train"
    /\ LET n == pure.proc[p].current_train_number
       IN  pure' = IF n \in pure.dirs
                   THEN [pure EXCEPT !.proc[p].pc = "idle",
                                     !.proc[p].last = "FileExistsError"]
                   ELSE [pure EXCEPT
                           !.dirs = @ \cup {n},
                           !.proc[p].pc = "idle", !.proc[p].last = "returned",
                           !.returns = Append(@, [proc |-> p, prev |-> pure.proc[p].prev,
                                                  before |-> pure.proc[p].before,
                                                  at |-> pure.dirs,
                                                  path |-> get_output_path(n)])]
    /\ DirsUnchanged

NextDirs ==
    \E p \in Procs :
        \/ CreateDirsCall(p)
        \/ RunsExists(p)
        \/ MakeRuns(p)
        \/ TrainExists(p)
        \/ MakeTrain(p)

SpecDirs == InitDirs /\ [][NextDirs]_vars

MaxFeatureLen == 2

FeatureTexts == UNION {[1..n -> Atoms] : n \in 0..MaxFeatureLen}

\* DataProcessor.__init__: the processor holds the loaded word vectors.
DataProcessor(gl) == [word_vectors |-> gl]

\* A dataframe of one row with the columns Text and Summary.
Row(text, summary) ==
    [Text |-> text, Summary |-> summary,
     cos_sim_good_text |-> <<0, 1>>, cos_sim_bad_text |-> <<0, 1>>,
     cos_sim_good_summary |-> <<0, 1>>, cos_sim_bad_summary |-> <<0, 1>>]

\* An add_features that compares the text with "bad" for the column
\* cos_sim_good_text and with "good" for cos_sim_bad_text.
add_features_crossed(dp, df) ==
    IF ~Contains(dp.word_vectors, <<"good">>) \/ ~Contains(dp.word_vectors, <<"bad">>)
    THEN [exc |-> "KeyError", df |-> df]
    ELSE LET good_emb == GetVector(dp.word_vectors, <<"good">>)
             bad_emb  == GetVector(dp.word_vectors, <<"bad">>)
             gt == cosine_sim(get_text_embedding(df.Text, dp.word_vectors), bad_emb)
             bt == cosine_sim(get_text_embedding(df.Text, dp.word_vectors), good_emb)
             gs == cosine_sim(get_text_embedding(df.Summary, dp.word_vectors), good_emb)
             bs == cosine_sim(get_text_embedding(df.Summary, dp.word_vectors), bad_emb)
         IN  IF \E c \in {gt, bt, gs, bs} : c.exc # "none"
             THEN [exc |-> "ValueError", df |-> df]
             ELSE [exc |-> "none",
                   df |-> [df EXCEPT !.cos_sim_good_text = gt.val,
                                     !.cos_sim_bad_text = bt.val,
                                     !.cos_sim_good_summary = gs.val,
                                     !.cos_sim_bad_summary = bs.val]]

\* DataProcessor.add_features: [exc, df]
add_features(dp, df) ==
    IF ~Contains(dp.word_vectors, <<"good">>) \/ ~Contains(dp.word_vectors, <<"bad">>)
    THEN [exc |-> "KeyError", df |-> df]
    ELSE LET good_emb == GetVector(dp.word_vectors, <<"good">>)
             bad_emb  == GetVector(dp.word_vectors, <<"bad">>)
             gt == cosine_sim(get_text_embedding(df.Text, dp.word_vectors), good_emb)
             bt == cosine_sim(get_text_embedding(df.Text, dp.word_vectors), bad_emb)
             gs == cosine_sim(get_text_embedding(df.Summary, dp.word_vectors), good_emb)
             bs == cosine_sim(get_text_embedding(df.Summary, dp.word_vectors), bad_emb)
         IN  IF \E c \in {gt, bt, gs, bs} : c.exc # "none"
             THEN [exc |-> "ValueError", df |-> df]
             ELSE [exc |-> "none",
                   df |-> [df EXCEPT !.cos_sim_good_text = gt.val,
                                     !.cos_sim_bad_text = bt.val,
                                     !.cos_sim_good_summary = gs.val,
                                     !.cos_sim_bad_summary = bs.val]]

NotPredicted == [exc |-> "not called", input_data |-> <<>>]

\* Training: add_features is applied to a row.
AddFeatures ==
    /\ pure = NoPure
    /\ \E text \in FeatureTexts, summary \in FeatureTexts, gl \in Spaces :
          /\ pure' = [op |-> "add_features", space |-> gl,
                      added |-> add_features(DataProcessor(gl), Row(text, summary)),
                      predicted |-> NotPredicted]
          /\ UNCHANGED <<caller, modelFile, glove, api, engine, calls, input_data, topic,
                         consumer, db>>

\* Inference: predict(summary, text) of an engine over the same word vectors
\* builds its input for the text and the summary of the row.
Predict ==
    /\ pure # NoPure
    /\ pure.op = "add_features"
    /\ LET eng == InferenceEngine("path", pure.space, "m6", pure.space)
           inp == [summary |-> pure.added.df.Summary, text |-> pure.added.df.Text,
                   HelpfulnessNumerator |-> 1, HelpfulnessDenominator |-> 1]
       IN  pure' = [pure EXCEPT !.op = "predict", !.predicted = PredictFeatures(eng, inp)]
    /\ UNCHANGED <<caller, modelFile, glove, api, engine, calls, input_data, topic,
                   consumer, db>>

NextFeatures == AddFeatures \/ Predict \/ Returned

SpecFeatures == Init /\ [][NextFeatures]_vars

\* C29: for any text and summary, the four values add_features writes to
\* cos_sim_good_text, cos_sim_bad_text, cos_sim_good_summary and
\* cos_sim_bad_summary equal the first four values predict computes for that
\* text and summary over the same word vectors; one raises when the other does.
C29_SameFeatures ==
    (pure # NoPure /\ pure.op = "predict") =>
        /\ (pure.added.exc = "none") <=> (pure.predicted.exc = "none")
        /\ pure.added.exc = "none" =>
              /\ Len(pure.predicted.input_data) = 6
              /\ SubSeq(pure.predicted.input_data, 1, 4)
                    = <<pure.added.df.cos_sim_good_text, pure.added.df.cos_sim_bad_text,
                        pure.added.df.cos_sim_good_summary, pure.added.df.cos_sim_bad_summary>>

\* Both were applied to a row whose four features differ from each other.
C29_Witness ==
    /\ pure # NoPure /\ pure.op = "predict"
    /\ pure.added.exc = "none" /\ pure.predicted.exc = "none"
    /\ Cardinality({pure.added.df.cos_sim_good_text, pure.added.df.cos_sim_bad_text,
                    pure.added.df.cos_sim_good_summary,
                    pure.added.df.cos_sim_bad_summary}) = 4
====
